---- MODULE Spec2Model ----
(***************************************************************************)
(* WebBench: the partitioned GPU buffer allocator (renderer/buffer.ts) and *)
(* the parts of the renderer that size and fill its partitions.            *)
(*                                                                         *)
(* A Buffer object is a record; each method of the class is an operator    *)
(* from the record (and the call's arguments) to the record after the      *)
(* call, the device writes the call issued and whether it threw.           *)
(* Byte sizes are integers; a Float32Array is [len, data] where data holds *)
(* only the elements that are not 0 (a fresh array is all zeros).          *)
(***************************************************************************)
EXTENDS Integers, Sequences, FiniteSets, TLC

\* ------------------------------------------------------------ bounds
\* coarse partitions of a buffer that is only laid out
MaxDeclared == 3
\* fine partitions of a buffer, over all its coarse partitions
MaxFine == 2
\* longest source array of a blit
MaxSrcLen == 3
\* blits of a buffer
MaxBlits == 1
\* objects of the scene
MaxObjects == 3
\* triangles of a mesh file
MaxTriangles == 2
\* samples of a benchmark run
MaxSamples == 10
\* frames of a continuous render loop
MaxLoopFrames == 12
\* animation-frame callbacks that are pending at a time
MaxPending == 4
\* objects of a scene of which the frames are followed call by call
MaxFrameObjects == 2
\* objects of the scene of the page
MaxPageObjects == 1
\* entries of the layout of a pipeline
MaxEntries == 8

\* ------------------------------------------------- program constants
\* GPUBufferUsage flags (WebGPU's values) as used by the callers.
COPY_DST == 8
UNIFORM == 64
STORAGE == 128

\* COARSE_PARTITION_TYPE has two members, NODES and LOOKUP: the coarse
\* partitions of the BVH buffer.
CoarsePartitionTypes == 2

\* buffer.ts:101 and :152
MAX_CHUNK_BYTES == 15 * 1024 * 1024

Min(a, b) == IF a < b THEN a ELSE b
Max(a, b) == IF a > b THEN a ELSE b

\* JS's & and | on integers that are not negative, bit by bit.
RECURSIVE BitAnd(_, _)
BitAnd(a, b) ==
    IF a = 0 \/ b = 0 THEN 0
    ELSE ((a % 2) * (b % 2)) + 2 * BitAnd(a \div 2, b \div 2)

RECURSIVE BitOr(_, _)
BitOr(a, b) ==
    IF a = 0 THEN b
    ELSE IF b = 0 THEN a
    ELSE Max(a % 2, b % 2) + 2 * BitOr(a \div 2, b \div 2)

\* ---------------------------------------------------- typed arrays
\* new Float32Array(n): n zeros.
Float32Array(n) == [len |-> n, data |-> << >>]

\* A source array given as a sequence of floats, as typed array.
Float32ArrayOf(s) == [len |-> Len(s), data |-> [i \in 0..(Len(s) - 1) |-> s[i + 1]]]

\* element i of a typed array
At(mem, i) == IF i \in DOMAIN mem.data THEN mem.data[i] ELSE 0

\* TypedArray.prototype.set(src, offset): RangeError when the source does
\* not fit at offset, and then nothing is written.
SetThrows(mem, src, offset) == offset < 0 \/ offset + src.len > mem.len

TypedArraySet(mem, src, offset) ==
    LET written == offset..(offset + src.len - 1)
        keep == {i \in DOMAIN mem.data : i \notin written}
        new == {i \in written : At(src, i - offset) # 0}
    IN [mem EXCEPT !.data =
            [i \in keep \cup new |->
                IF i \in written THEN At(src, i - offset) ELSE mem.data[i]]]

\* A faulty variant of ViewThrows: a view that is not checked against the
\* buffer it views.
ViewUnchecked(host, byteOffset, length) == FALSE

\* new Float32Array(host.buffer, byteOffset, length): a view of length
\* elements; RangeError when byteOffset is negative or not a multiple of 4
\* or the view ends past the buffer.
ViewThrows(host, byteOffset, length) ==
    \/ byteOffset < 0
    \/ byteOffset % 4 # 0
    \/ length < 0
    \/ byteOffset + 4 * length > 4 * host.len

Float32ArrayView(host, byteOffset, length) ==
    LET first == byteOffset \div 4
        inside == {i \in DOMAIN host.data : i >= first /\ i < first + length}
    IN [byteOffset |-> byteOffset,
        len |-> length,
        data |-> [j \in {i - first : i \in inside} |-> host.data[j + first]]]

\* ------------------------------------------------------- partition.ts
Partition(offset, size, payload) ==
    [offset |-> offset, size |-> size, payload |-> payload]

\* --------------------------------------------------------- buffer.ts
NoDeviceMemory == [size |-> -1, usage |-> 0]

\* constructor
NewBuffer ==
    [usage |-> 0,
     size |-> 0,
     coarse_partitions |-> << >>,
     hostMemories |-> << >>,
     fine_partitions |-> << >>,
     deviceMemory |-> NoDeviceMemory]

\* A faulty variant of padding: the outer mask is left out, so an offset
\* that is already aligned is padded by a whole alignment.
padding_unmasked(alignment, offset) ==
    alignment - BitAnd(offset, alignment - 1)

\* (alignment - (offset & alignment - 1)) & alignment - 1
padding(alignment, offset) ==
    BitAnd(alignment - BitAnd(offset, alignment - 1), alignment - 1)

\* A faulty variant of add_coarse_partition: the paddings move the offset of
\* the partition and are left out of this.size.
add_coarse_partition_size_unpadded(b, limits, size, usage) ==
    LET offset0 == b.size
        pad1 == IF BitAnd(usage, STORAGE) # 0
                THEN padding(limits.minStorageBufferOffsetAlignment, offset0)
                ELSE 0
        offset1 == offset0 + pad1
        pad2 == IF BitAnd(usage, UNIFORM) # 0
                THEN padding(limits.minUniformBufferOffsetAlignment, offset1)
                ELSE 0
        offset2 == offset1 + pad2
    IN [b EXCEPT
           !.size = b.size + size,
           !.usage = BitOr(b.usage, usage),
           !.coarse_partitions = Append(@, Partition(offset2, size, << >>)),
           !.hostMemories = Append(@, Float32Array(size \div 4)),
           !.fine_partitions = Append(@, << >>)]

add_coarse_partition(b, limits, size, usage) ==
    LET offset0 == b.size
        pad1 == IF BitAnd(usage, STORAGE) # 0
                THEN padding(limits.minStorageBufferOffsetAlignment, offset0)
                ELSE 0
        offset1 == offset0 + pad1
        pad2 == IF BitAnd(usage, UNIFORM) # 0
                THEN padding(limits.minUniformBufferOffsetAlignment, offset1)
                ELSE 0
        offset2 == offset1 + pad2
    IN [b EXCEPT
           !.size = b.size + size + pad1 + pad2,
           !.usage = BitOr(b.usage, usage),
           !.coarse_partitions = Append(@, Partition(offset2, size, << >>)),
           !.hostMemories = Append(@, Float32Array(size \div 4)),
           !.fine_partitions = Append(@, << >>)]

RECURSIVE SumSizes(_)
SumSizes(partitions) ==
    IF partitions = << >> THEN 0
    ELSE Head(partitions).size + SumSizes(Tail(partitions))

\* A faulty variant of descriptor: the paddings are left out of the size.
descriptor_unpadded(b) == [size |-> SumSizes(b.coarse_partitions), usage |-> b.usage]

descriptor(b) == [size |-> b.size, usage |-> b.usage]

Initialize(b) == [b EXCEPT !.deviceMemory = descriptor(b)]

\* A faulty variant of next_fine_offset: the last partition's size is not added.
next_fine_offset_stuck(fine_partitions) ==
    LET partition_index == Len(fine_partitions)
    IN IF partition_index > 0
       THEN fine_partitions[partition_index].offset
       ELSE 0

next_fine_offset(fine_partitions) ==
    LET partition_index == Len(fine_partitions)
    IN IF partition_index > 0
       THEN fine_partitions[partition_index].offset
                + fine_partitions[partition_index].size
       ELSE 0

add_fine_partition(b, parent_index, size, payload) ==
    LET fine_partitions == b.fine_partitions[parent_index + 1]
        offset == next_fine_offset(fine_partitions)
    IN [b EXCEPT !.fine_partitions[parent_index + 1] =
            Append(@, Partition(offset, size, payload))]

get_fine_partition(b, coarse_index, fine_index) ==
    b.fine_partitions[coarse_index + 1][fine_index + 1]

get_coarse_partition(b, coarse_index) == b.coarse_partitions[coarse_index + 1]

\* What a method call leaves: the buffer, the device writes and the throw.
Outcome(b, writes, threw) == [buffer |-> b, writes |-> writes, threw |-> threw]

\* A faulty variant of blit: the blit also writes the source to the device.
blit_write_through(b, coarse_index, src, offset) ==
    LET host_memory == b.hostMemories[coarse_index + 1]
    IN IF SetThrows(host_memory, src, offset)
       THEN Outcome(b, << >>, TRUE)
       ELSE Outcome([b EXCEPT !.hostMemories[coarse_index + 1] =
                        TypedArraySet(host_memory, src, offset)],
                    << [bufferOffset |-> b.coarse_partitions[coarse_index + 1].offset + 4 * offset,
                        data |-> [byteOffset |-> 0, len |-> src.len, data |-> src.data]] >>,
                    FALSE)

blit(b, coarse_index, src, offset) ==
    LET host_memory == b.hostMemories[coarse_index + 1]
    IN IF SetThrows(host_memory, src, offset)
       THEN Outcome(b, << >>, TRUE)
       ELSE Outcome([b EXCEPT !.hostMemories[coarse_index + 1] =
                        TypedArraySet(host_memory, src, offset)], << >>, FALSE)

blit_to_coarse_partition(b, coarse_index, src, offset) ==
    blit(b, coarse_index, src, offset)

blit_to_fine_partition(b, coarse_index, fine_index, src) ==
    blit(b, coarse_index, src, get_fine_partition(b, coarse_index, fine_index).offset)

\* A faulty variant of chunk_size: every chunk is a full one.
chunk_size_full(remaining) == MAX_CHUNK_BYTES

chunk_size(remaining) == Min(remaining, MAX_CHUNK_BYTES)

\* The while loop of both upload methods: one writeBuffer per chunk.
\* writeBuffer on a buffer that was never created is a TypeError.
RECURSIVE upload_loop(_, _, _, _, _)
upload_loop(b, host_memory, remaining, localBufferOffset, localSrcOffset) ==
    IF remaining <= 0 THEN [writes |-> << >>, threw |-> FALSE]
    ELSE LET chunk == chunk_size(remaining)
         IN IF \/ ViewThrows(host_memory, localSrcOffset, chunk \div 4)
               \/ b.deviceMemory = NoDeviceMemory
            THEN [writes |-> << >>, threw |-> TRUE]
            ELSE LET chunkView == Float32ArrayView(host_memory, localSrcOffset, chunk \div 4)
                     rest == upload_loop(b, host_memory, remaining - chunk,
                                         localBufferOffset + chunk,
                                         localSrcOffset + chunk)
                 IN [writes |-> << [bufferOffset |-> localBufferOffset,
                                    data |-> chunkView] >> \o rest.writes,
                     threw |-> rest.threw]

upload_coarse_partition(b, coarse_index) ==
    LET coarse_partition == get_coarse_partition(b, coarse_index)
        buffer_offset == coarse_partition.offset
        host_memory == b.hostMemories[coarse_index + 1]
        host_size == 4 * host_memory.len
        r == upload_loop(b, host_memory, host_size, buffer_offset, 0)
    IN Outcome(b, r.writes, r.threw)

\* A faulty variant of fine_buffer_offset: the fine offset, in elements, is
\* taken for bytes.
fine_buffer_offset_elements(coarse_partition, fine_partition) ==
    coarse_partition.offset + fine_partition.offset

fine_buffer_offset(coarse_partition, fine_partition) ==
    coarse_partition.offset + 4 * fine_partition.offset

upload_fine_partition(b, coarse_index, fine_index) ==
    LET coarse_partition == get_coarse_partition(b, coarse_index)
        fine_partition == get_fine_partition(b, coarse_index, fine_index)
        buffer_offset == fine_buffer_offset(coarse_partition, fine_partition)
        host_memory == b.hostMemories[coarse_index + 1]
        src_offset == fine_partition.offset * 4
        src_size == fine_partition.size * 4
        r == upload_loop(b, host_memory, src_size, buffer_offset, src_offset)
    IN Outcome(b, r.writes, r.threw)

\* =========================================== acceleration structures
\* node.ts: an axis-aligned bound, corners as <<x, y, z>>
Node(minCorner, maxCorner) == [minCorner |-> minCorner, maxCorner |-> maxCorner]

Axes == 1..3

expand(a, b) ==
    Node([i \in Axes |-> Min(a.minCorner[i], b.minCorner[i])],
         [i \in Axes |-> Max(a.maxCorner[i], b.maxCorner[i])])

\* twice the centroid of a bound, to stay in the integers
centroid2(node) == [i \in Axes |-> node.minCorner[i] + node.maxCorner[i]]

\* bvh.ts. leaves is the input sequence; indices are the primitive
\* handles, numbered from 0, in the order the build leaves them.
\* A node of the tree: a leaf has primitiveCount > 0 and leftChild is the
\* offset of its first handle in indices; an internal node has
\* primitiveCount = 0 and its children are leftChild and leftChild + 1.
BVHNode(bound, leftChild, primitiveCount) ==
    [minCorner |-> bound.minCorner, maxCorner |-> bound.maxCorner,
     leftChild |-> leftChild, primitiveCount |-> primitiveCount]

EmptyBVH == [nodes |-> << >>, indices |-> << >>]

\* the handles first .. first + count - 1 of indices
group(indices, first, count) == SubSeq(indices, first + 1, first + count)

\* 1. the aggregate bound of a group (fold via expand)
RECURSIVE group_bound(_, _)
group_bound(leaves, handles) ==
    IF Len(handles) = 1 THEN leaves[handles[1] + 1]
    ELSE expand(leaves[handles[1] + 1], group_bound(leaves, Tail(handles)))

\* 2. the axis of the greatest centroid spread, X before Y before Z
centroid_extent(leaves, handles, axis) ==
    LET cs == {centroid2(leaves[handles[k] + 1])[axis] : k \in 1..Len(handles)}
    IN (CHOOSE hi \in cs : \A c \in cs : c <= hi)
       - (CHOOSE lo \in cs : \A c \in cs : lo <= c)

split_axis(leaves, handles) ==
    CHOOSE axis \in Axes :
        /\ \A other \in Axes :
              centroid_extent(leaves, handles, other) <= centroid_extent(leaves, handles, axis)
        /\ \A lower \in Axes :
              lower < axis =>
                  centroid_extent(leaves, handles, lower) < centroid_extent(leaves, handles, axis)

\* 3. the handles sorted by centroid on the axis (a stable insertion sort)
RECURSIVE insert_by_centroid(_, _, _, _)
insert_by_centroid(leaves, axis, sorted, handle) ==
    IF sorted = << >> THEN << handle >>
    ELSE IF centroid2(leaves[sorted[Len(sorted)] + 1])[axis]
              <= centroid2(leaves[handle + 1])[axis]
    THEN Append(sorted, handle)
    ELSE Append(insert_by_centroid(leaves, axis, SubSeq(sorted, 1, Len(sorted) - 1), handle),
                sorted[Len(sorted)])

RECURSIVE sort_by_centroid(_, _, _)
sort_by_centroid(leaves, axis, handles) ==
    IF handles = << >> THEN << >>
    ELSE insert_by_centroid(leaves, axis,
             sort_by_centroid(leaves, axis, SubSeq(handles, 1, Len(handles) - 1)),
             handles[Len(handles)])

leaf_node(leaves, indices, first, count) ==
    BVHNode(group_bound(leaves, group(indices, first, count)), first, count)

\* 4. a group of more than one primitive is split at the median into two
\* children, allocated side by side, and each half is subdivided in turn
RECURSIVE subdivide(_, _, _)
subdivide(leaves, bvh, node_index) ==
    LET node == bvh.nodes[node_index + 1]
        first == node.leftChild
        count == node.primitiveCount
    IN IF count <= 1 THEN bvh
       ELSE LET handles == group(bvh.indices, first, count)
                sorted == sort_by_centroid(leaves, split_axis(leaves, handles), handles)
                half == count \div 2
                left_child == Len(bvh.nodes)
                indices == [i \in 1..Len(bvh.indices) |->
                               IF first < i /\ i <= first + count
                               THEN sorted[i - first] ELSE bvh.indices[i]]
                parent == [node EXCEPT !.leftChild = left_child, !.primitiveCount = 0]
                nodes == [bvh.nodes EXCEPT ![node_index + 1] = parent]
                            \o << leaf_node(leaves, indices, first, half),
                                  leaf_node(leaves, indices, first + half, count - half) >>
                split == [nodes |-> nodes, indices |-> indices]
            IN subdivide(leaves, subdivide(leaves, split, left_child), left_child + 1)

\* build(leaves)
BVH(leaves) ==
    IF leaves = << >> THEN EmptyBVH
    ELSE LET indices == [i \in 1..Len(leaves) |-> i - 1]
             root == leaf_node(leaves, indices, 0, Len(leaves))
         IN subdivide(leaves, [nodes |-> << root >>, indices |-> indices], 0)

\* One node as its 32-byte record: min corner, control A, max corner,
\* control B. An internal node: A is the global index of its first child
\* and B is 0; a leaf: A is the global offset of its first handle and B is
\* its primitive count. payload is <<node offset, index offset>>.
flattened_node(node, payload) ==
    << node.minCorner[1], node.minCorner[2], node.minCorner[3],
       IF node.primitiveCount = 0
       THEN node.leftChild + payload[1]
       ELSE node.leftChild + (IF Len(payload) >= 2 THEN payload[2] ELSE 0),
       node.maxCorner[1], node.maxCorner[2], node.maxCorner[3],
       node.primitiveCount >>

get_flattened_nodes(bvh, payload) ==
    [e \in 1..(8 * Len(bvh.nodes)) |->
        flattened_node(bvh.nodes[((e - 1) \div 8) + 1], payload)[((e - 1) % 8) + 1]]

get_flattened_indices(bvh, payload) ==
    [i \in 1..Len(bvh.indices) |-> bvh.indices[i] + payload[1]]

\* ====================================================== constants.ts
\* COARSE_PARTITION_TYPE
NODES == 0
LOOKUP == 1
\* FINE_PARTITION_TYPE
TLAS == 0
PYRAMID == 1

object_type_count == 1

\* for (let i = 1; i < object_type_count + 1; i++): TLAS + i
ObjectTypes == {TLAS + i : i \in 1..object_type_count}

\* ======================================================= obj_mesh.ts
\* constructor: no triangle, and no bvh before build_bvh
ObjMesh == [triangles |-> << >>, bvh |-> EmptyBVH, bvh_defined |-> FALSE]

\* createPlaceholderTriangle, as the bound its get_node gives
PlaceholderTriangle(scale) == Node(<<0, 0, 0>>, <<scale, scale, 0>>)

build_bvh(mesh) == [mesh EXCEPT !.bvh = BVH(mesh.triangles), !.bvh_defined = TRUE]

\* initialize: read is the triangles readFile parsed; readFile throws when
\* the file cannot be fetched or has no triangle (read is empty).
initialize(mesh, read, scale) ==
    build_bvh([mesh EXCEPT !.triangles =
                   IF read = << >> THEN << PlaceholderTriangle(scale) >> ELSE read])

\* ======================================================= renderer.ts
\* meshes.get(object_type) is defined
HasMesh(meshes, object_type) == object_type \in DOMAIN meshes

\* The leaves of the top level: one per object that has a mesh, in the
\* order of the objects. bound is the world bound of the instance
\* (BlasDescription.get_node).
RECURSIVE input_nodes(_, _)
input_nodes(objects, meshes) ==
    IF objects = << >> THEN << >>
    ELSE (IF HasMesh(meshes, Head(objects).object_type)
          THEN << Head(objects).bound >> ELSE << >>)
         \o input_nodes(Tail(objects), meshes)

\* A faulty variant of build_tlas: a scene without objects still gets a
\* top level, of one leaf without extent.
build_tlas_one_leaf(objects, meshes) ==
    BVH(input_nodes(objects, meshes) \o
        (IF Len(objects) = 0 THEN << Node(<<0, 0, 0>>, <<0, 0, 0>>) >> ELSE << >>))

build_tlas(objects, meshes) ==
    IF Len(objects) = 0 THEN BVH(<< >>)
    ELSE LET finalNodes == input_nodes(objects, meshes)
         IN IF Len(finalNodes) = 0 THEN BVH(<< >>) ELSE BVH(finalNodes)

\* the sum of f[t] over the types in ts
RECURSIVE SumOver(_, _)
SumOver(f, ts) ==
    IF ts = {} THEN 0
    ELSE LET t == CHOOSE x \in ts : TRUE IN f[t] + SumOver(f, ts \ {t})

\* A faulty variant of tlas_node_count: one node per object.
tlas_node_count_leaves(object_count) == object_count

\* 2 * this.scene.objects.length - 1
tlas_node_count(object_count) == 2 * object_count - 1

\* A faulty variant of allocate_coarse_partitions: the index count takes two
\* handles for every object.
allocate_coarse_partitions_spare_handles(b, limits, objects, meshes) ==
    IF \E t \in ObjectTypes : ~meshes[t].bvh_defined
    THEN Outcome(b, << >>, TRUE)
    ELSE LET node_count == tlas_node_count(Len(objects))
                 + SumOver([t \in ObjectTypes |-> Len(meshes[t].bvh.nodes)], ObjectTypes)
             index_count == 2 * Len(objects)
                 + SumOver([t \in ObjectTypes |-> Len(meshes[t].bvh.indices)], ObjectTypes)
             node_size == 32 * node_count
             index_size == 4 * index_count
             usage == BitOr(STORAGE, COPY_DST)
             b1 == add_coarse_partition(NewBuffer, limits, node_size, usage)
             b2 == add_coarse_partition(b1, limits, index_size, usage)
         IN Outcome(Initialize(b2), << >>, FALSE)

\* mesh.bvh.nodes of a mesh whose bvh is undefined is a TypeError
allocate_coarse_partitions(b, limits, objects, meshes) ==
    IF \E t \in ObjectTypes : ~meshes[t].bvh_defined
    THEN Outcome(b, << >>, TRUE)
    ELSE LET node_count == tlas_node_count(Len(objects))
                 + SumOver([t \in ObjectTypes |-> Len(meshes[t].bvh.nodes)], ObjectTypes)
             index_count == Len(objects)
                 + SumOver([t \in ObjectTypes |-> Len(meshes[t].bvh.indices)], ObjectTypes)
             node_size == 32 * node_count
             index_size == 4 * index_count
             usage == BitOr(STORAGE, COPY_DST)
             b1 == add_coarse_partition(NewBuffer, limits, node_size, usage)
             b2 == add_coarse_partition(b1, limits, index_size, usage)
         IN Outcome(Initialize(b2), << >>, FALSE)

\* Two calls in sequence: the second is not made when the first threw.
After(first, second) ==
    IF first.threw THEN first
    ELSE Outcome(second.buffer, first.writes \o second.writes, second.threw)

\* blit_to_fine_partition and then upload_fine_partition
blit_and_upload(b, coarse_index, fine_index, data) ==
    LET blitted == blit_to_fine_partition(b, coarse_index, fine_index, Float32ArrayOf(data))
    IN After(blitted, upload_fine_partition(blitted.buffer, coarse_index, fine_index))

\* the loop over the meshes of allocate_fine_partitions, from type TLAS + i
RECURSIVE allocate_meshes(_, _, _, _, _, _)
allocate_meshes(b, meshes, i, node_offset, index_offset, tri_offset) ==
    IF i >= object_type_count + 1 THEN Outcome(b, << >>, FALSE)
    ELSE LET object_type == TLAS + i
             mesh == meshes[object_type]
             node_payload == <<node_offset, index_offset>>
             node_index == Len(b.fine_partitions[NODES + 1])
             b1 == add_fine_partition(b, NODES, 8 * Len(mesh.bvh.nodes), node_payload)
             nodes_done == blit_and_upload(b1, NODES, node_index,
                               get_flattened_nodes(mesh.bvh, node_payload))
             index_payload == <<tri_offset>>
             fine_index == Len(nodes_done.buffer.fine_partitions[LOOKUP + 1])
             b2 == add_fine_partition(nodes_done.buffer, LOOKUP, Len(mesh.bvh.indices),
                                      index_payload)
             indices_done == blit_and_upload(b2, LOOKUP, fine_index,
                                 get_flattened_indices(mesh.bvh, index_payload))
         IN After(nodes_done,
                  After(indices_done,
                        allocate_meshes(indices_done.buffer, meshes, i + 1,
                            node_offset + Len(mesh.bvh.nodes),
                            index_offset + Len(mesh.bvh.indices),
                            tri_offset + Len(mesh.bvh.indices))))

\* A faulty variant of allocate_fine_partitions: the node offset of the first
\* mesh is the number of objects, as its index offset is.
allocate_fine_partitions_leaf_offset(b, objects, meshes) ==
    LET b1 == add_fine_partition(b, NODES, 8 * tlas_node_count(Len(objects)), <<0, 0>>)
        b2 == add_fine_partition(b1, LOOKUP, Len(objects), <<0>>)
    IN allocate_meshes(b2, meshes, 1, Len(objects), Len(objects), 0)

allocate_fine_partitions(b, objects, meshes) ==
    LET b1 == add_fine_partition(b, NODES, 8 * tlas_node_count(Len(objects)), <<0, 0>>)
        b2 == add_fine_partition(b1, LOOKUP, Len(objects), <<0>>)
    IN allocate_meshes(b2, meshes, 1, tlas_node_count(Len(objects)), Len(objects), 0)

\* A call or a step of the renderer, what it is made on and, where there
\* are several of it, which.
Event(op, target, index) == [op |-> op, target |-> target, index |-> index]

\* ---- the calls that createAssets makes on its Buffers, in order
\* this.sceneParameters: new Buffer, add_coarse_partition, Initialize
scene_parameters_log ==
    << Event("add_coarse_partition", "scene parameters", 0),
       Event("Initialize", "scene parameters", 0) >>

\* A faulty variant of allocate_coarse_log: the buffer is realized before
\* its second partition is declared.
allocate_coarse_log_realized_early(threw) ==
    IF threw THEN << >>
    ELSE << Event("add_coarse_partition", "BVH", NODES),
            Event("Initialize", "BVH", 0),
            Event("add_coarse_partition", "BVH", LOOKUP) >>

\* allocate_coarse_partitions: nothing is called when a mesh has no bvh
allocate_coarse_log(threw) ==
    IF threw THEN << >>
    ELSE << Event("add_coarse_partition", "BVH", NODES),
            Event("add_coarse_partition", "BVH", LOOKUP),
            Event("Initialize", "BVH", 0) >>

\* blit_to_fine_partition and, if it returned, upload_fine_partition
blit_and_upload_log(b, coarse_index, fine_index, data) ==
    << Event("blit", "BVH", coarse_index) >>
    \o (IF blit_to_fine_partition(b, coarse_index, fine_index, Float32ArrayOf(data)).threw
        THEN << >>
        ELSE << Event("upload", "BVH", coarse_index) >>)

\* the loop over the meshes of allocate_fine_partitions
RECURSIVE allocate_meshes_log(_, _, _, _, _, _)
allocate_meshes_log(b, meshes, i, node_offset, index_offset, tri_offset) ==
    IF i >= object_type_count + 1 THEN << >>
    ELSE LET object_type == TLAS + i
             mesh == meshes[object_type]
             node_payload == <<node_offset, index_offset>>
             node_index == Len(b.fine_partitions[NODES + 1])
             b1 == add_fine_partition(b, NODES, 8 * Len(mesh.bvh.nodes), node_payload)
             node_data == get_flattened_nodes(mesh.bvh, node_payload)
             nodes_done == blit_and_upload(b1, NODES, node_index, node_data)
             index_payload == <<tri_offset>>
             fine_index == Len(nodes_done.buffer.fine_partitions[LOOKUP + 1])
             b2 == add_fine_partition(nodes_done.buffer, LOOKUP, Len(mesh.bvh.indices),
                                      index_payload)
             index_data == get_flattened_indices(mesh.bvh, index_payload)
             indices_done == blit_and_upload(b2, LOOKUP, fine_index, index_data)
         IN blit_and_upload_log(b1, NODES, node_index, node_data)
            \o (IF nodes_done.threw THEN << >>
                ELSE blit_and_upload_log(b2, LOOKUP, fine_index, index_data)
                     \o (IF indices_done.threw THEN << >>
                         ELSE allocate_meshes_log(indices_done.buffer, meshes, i + 1,
                                  node_offset + Len(mesh.bvh.nodes),
                                  index_offset + Len(mesh.bvh.indices),
                                  tri_offset + Len(mesh.bvh.indices))))

allocate_fine_log(b, objects, meshes) ==
    LET b1 == add_fine_partition(b, NODES, 8 * tlas_node_count(Len(objects)), <<0, 0>>)
        b2 == add_fine_partition(b1, LOOKUP, Len(objects), <<0>>)
    IN allocate_meshes_log(b2, meshes, 1, tlas_node_count(Len(objects)), Len(objects), 0)

\* upload_meshes: this.triangleBuffer gets one partition for all triangles
\* and is realized; then every triangle is blitted, or an empty one if
\* there is none, and the partition is uploaded.
upload_meshes_log(meshes) ==
    LET triangle_count == SumOver([t \in ObjectTypes |-> Len(meshes[t].triangles)],
                                  ObjectTypes)
    IN << Event("add_coarse_partition", "triangles", 0),
          Event("Initialize", "triangles", 0) >>
       \o [j \in 1..Max(1, triangle_count) |-> Event("blit", "triangles", 0)]
       \o << Event("upload", "triangles", 0) >>

\* this.blasDescriptionBuffer: new Buffer, add_coarse_partition, Initialize
blas_description_log ==
    << Event("add_coarse_partition", "instance descriptors", 0),
       Event("Initialize", "instance descriptors", 0) >>

\* prepareScene: this.bvh_buffer.get_fine_partition(0, object.object_type).offset / 8,
\* the root offset of the instance descriptor of an object
blas_root_node(b, object_type) ==
    get_fine_partition(b, 0, object_type).offset \div 8

\* The top level goes to fine partition 0 of coarse partitions 0 and 1.
blit_tlas(b, tlas) ==
    LET nodes_done == blit_and_upload(b, 0, 0,
                          get_flattened_nodes(tlas, get_fine_partition(b, 0, 0).payload))
        b1 == nodes_done.buffer
    IN After(nodes_done,
             blit_and_upload(b1, 1, 0,
                 get_flattened_indices(tlas, get_fine_partition(b1, 1, 0).payload)))

\* the blits and uploads of blit_tlas that were made, in order
tlas_log(b, tlas) ==
    LET nodes_blit == blit_to_fine_partition(b, 0, 0,
            Float32ArrayOf(get_flattened_nodes(tlas, get_fine_partition(b, 0, 0).payload)))
        nodes_upload == upload_fine_partition(nodes_blit.buffer, 0, 0)
        b1 == nodes_blit.buffer
        indices_blit == blit_to_fine_partition(b1, 1, 0,
            Float32ArrayOf(get_flattened_indices(tlas, get_fine_partition(b1, 1, 0).payload)))
        indices_upload == upload_fine_partition(indices_blit.buffer, 1, 0)
    IN IF nodes_blit.threw THEN << >>
       ELSE << Event("blit", "TLAS nodes", 0) >> \o
        (IF nodes_upload.threw THEN << >>
         ELSE << Event("upload", "TLAS nodes", 0) >> \o
          (IF indices_blit.threw THEN << >>
           ELSE << Event("blit", "TLAS indices", 0) >> \o
            (IF indices_upload.threw THEN << >>
             ELSE << Event("upload", "TLAS indices", 0) >>)))

\* A faulty variant of instance_log: no instance is made and no descriptor
\* written.
no_instance_log(objects, meshes, i) == << >>

\* the loop over the objects: the instance of each object that has a mesh
\* is made and its descriptor is blitted
RECURSIVE instance_log(_, _, _)
instance_log(objects, meshes, i) ==
    IF i > Len(objects) THEN << >>
    ELSE (IF HasMesh(meshes, objects[i].object_type)
          THEN << Event("instance", "instance descriptors", i), Event("blit", "instance descriptors", 0) >>
          ELSE << >>)
         \o instance_log(objects, meshes, i + 1)

\* prepareScene: the camera goes to the scene parameters; the instances
\* are made anew and their descriptors written; the top level is built
\* anew from them and written over the last one. The scene parameters and
\* the instance descriptors are buffers of their own, sized for what is
\* written to them.
prepareScene(b, objects, meshes) ==
    LET tlas == build_tlas(objects, meshes)
        r == blit_tlas(b, tlas)
        log == << Event("blit", "scene parameters", 0), Event("upload", "scene parameters", 0) >>
               \o (IF Len(objects) = 0 THEN << >>
                   ELSE instance_log(objects, meshes, 1)
                        \o << Event("upload", "instance descriptors", 0) >>)
               \o << Event("build_tlas", "TLAS", 0) >>
               \o tlas_log(b, tlas)
    IN [buffer |-> r.buffer, tlas |-> tlas, writes |-> r.writes, threw |-> r.threw,
        log |-> log]

\* frametime before initialize has set it
undefined == -1

\* A Renderer object, as far as frames go.
RendererOf(pc, objects, meshes, bvh_buffer, tlas, loaded, frametime) ==
    [pc |-> pc, objects |-> objects, meshes |-> meshes, bvh_buffer |-> bvh_buffer,
     tlas |-> tlas, loaded |-> loaded, frametime |-> frametime]

\* const RENDER_PASSES = lightweightMode ? 1 : 3
RENDER_PASSES(lightweightMode) == IF lightweightMode THEN 1 ELSE 3

\* What renderSingleFrame leaves: the renderer, the value it returned, how
\* it ended and what it did.
FrameOutcome(renderer, returned, ended, log) ==
    [renderer |-> renderer, returned |-> returned, ended |-> ended, log |-> log]

\* A faulty variant of caught: the frame time of the frame before.
caught_stale(renderer) == renderer.frametime

\* catch (error) { return 0 }
caught(renderer) == 0

\* renderSingleFrame(lightweightMode). updated is scene.objects after
\* scene.update and p what prepareScene makes of them; fault is the device
\* call that throws, if one does; duration is end - start. Before createAssets has made the buffers
\* prepareScene throws on the first of them, and before makePipelines has
\* built the pipelines setPipeline throws.
renderSingleFrame(renderer, updated, p, fault, duration, lightweightMode) ==
    LET moved == [renderer EXCEPT !.objects = updated]
        prepared == [moved EXCEPT !.bvh_buffer = p.buffer, !.tlas = p.tlas]
        loaded == [prepared EXCEPT !.loaded = TRUE]
        update_log == << Event("update", "scene", 0) >>
        dispatch_log == [k \in 1..RENDER_PASSES(lightweightMode) |-> Event("dispatch", "ray tracing", k)]
    IN IF renderer.pc \notin {"assets_created", "ready"}
       THEN FrameOutcome(moved, caught(moved), "prepareScene threw", update_log)
       ELSE IF fault = "writeBuffer"
       THEN FrameOutcome(moved, caught(moved), "writeBuffer threw",
                         update_log \o << Event("blit", "scene parameters", 0) >>)
       ELSE IF p.threw
       THEN FrameOutcome(prepared, caught(prepared), "prepareScene threw",
                         update_log \o p.log)
       ELSE IF fault = "encode" \/ renderer.pc # "ready"
       THEN FrameOutcome(loaded, caught(loaded), "encode threw", update_log \o p.log)
       ELSE IF fault = "texture"
       THEN FrameOutcome(loaded, caught(loaded), "texture threw",
                         update_log \o p.log \o dispatch_log)
       ELSE IF fault = "submit"
       THEN FrameOutcome(loaded, caught(loaded), "submit threw",
                         update_log \o p.log \o dispatch_log
                             \o << Event("draw", "screen", 0) >>)
       ELSE FrameOutcome([loaded EXCEPT !.frametime = duration], duration, "submitted",
                         update_log \o p.log \o dispatch_log
                             \o << Event("draw", "screen", 0), Event("submit", "queue", 0) >>)

\* ======================================================= pipeline.ts
\* GPUShaderStage flags (WebGPU's values) as used by the renderer
FRAGMENT == 2
COMPUTE == 4

\* new Pipeline(device, visibility)
NewPipeline(visibility) ==
    [visibility |-> visibility, entries |-> << >>, binding |-> 0]

\* a GPUBindGroupLayoutEntry: its binding, its visibility, the member that
\* says what is bound and the type or view dimension that member gives
LayoutEntry(binding, visibility, resource, type) ==
    [binding |-> binding, visibility |-> visibility, resource |-> resource, type |-> type]

\* A faulty variant of push_entry: the counter is left as it was.
push_entry_same_binding(p, visibility, resource, type) ==
    [p EXCEPT !.entries = Append(@, LayoutEntry(p.binding, visibility, resource, type))]

\* this.entries.push({binding: this.binding, ...}); this.binding += 1
push_entry(p, visibility, resource, type) ==
    [p EXCEPT !.entries = Append(@, LayoutEntry(p.binding, visibility, resource, type)),
              !.binding = @ + 1]

addImage2D(p) ==
    IF p.visibility = COMPUTE
    THEN push_entry(p, p.visibility, "storageTexture", "2d")
    ELSE push_entry(push_entry(p, p.visibility, "sampler", ""), FRAGMENT, "texture", "")

addBuffer(p, type) == push_entry(p, p.visibility, "buffer", type)

addImageCube(p) ==
    push_entry(push_entry(p, p.visibility, "texture", "cube"), p.visibility, "sampler", "")

\* build(src_code, entry_points). The device reports a shader that does
\* not compile in getCompilationInfo, which build only logs, and as a
\* validation error of createComputePipeline and createRenderPipeline,
\* which return a pipeline that is not valid: nothing is thrown.
build(compiles) ==
    [threw |-> FALSE, pipeline |-> IF compiles THEN "valid" ELSE "invalid"]

\* ---------------------------------------- renderer.ts: the bind groups
\* makeBindGroupLayouts, on the pipelines that initialize has made
makeBindGroupLayouts ==
    [ray_tracing_pipeline |->
        addImageCube(
        addBuffer(
        addBuffer(
        addBuffer(
        addBuffer(
        addBuffer(
        addImage2D(NewPipeline(COMPUTE)),
            "uniform"),
            "read-only-storage"),
            "read-only-storage"),
            "read-only-storage"),
            "read-only-storage")),
     screen_pipeline |-> addImage2D(NewPipeline(FRAGMENT))]

\* an entry of a bind group: its binding and the kind of its resource
BindGroupEntry(binding, resource) == [binding |-> binding, resource |-> resource]

\* makeBindGroups: the entries of the two bind groups
makeBindGroups ==
    [ray_tracing_bind_group |->
        << BindGroupEntry(0, "texture view"),
           BindGroupEntry(1, "buffer"),
           BindGroupEntry(2, "buffer"),
           BindGroupEntry(3, "buffer"),
           BindGroupEntry(4, "buffer"),
           BindGroupEntry(5, "buffer"),
           BindGroupEntry(6, "texture view"),
           BindGroupEntry(7, "sampler") >>,
     screen_bind_group |->
        << BindGroupEntry(0, "sampler"),
           BindGroupEntry(1, "texture view") >>]

\* ============================================ the page: the score
\* Array.prototype.sort((a, b) => a - b) of a copy: ascending, stable
RECURSIVE insert_ascending(_, _)
insert_ascending(sorted, time) ==
    IF sorted = << >> THEN << time >>
    ELSE IF sorted[Len(sorted)] <= time THEN Append(sorted, time)
    ELSE Append(insert_ascending(SubSeq(sorted, 1, Len(sorted) - 1), time),
                sorted[Len(sorted)])

RECURSIVE sortedTimes(_)
sortedTimes(frameTimes) ==
    IF frameTimes = << >> THEN << >>
    ELSE insert_ascending(sortedTimes(SubSeq(frameTimes, 1, Len(frameTimes) - 1)),
                          frameTimes[Len(frameTimes)])

\* A faulty variant of cutOff: the tenth is rounded up.
cutOff_rounded_up(length) == (length + 9) \div 10

\* Math.floor(sortedTimes.length * 0.1): the double 0.1 is a little more
\* than a tenth, by less than what it takes to reach the next integer, so
\* the floor is that of length / 10.
cutOff(length) == length \div 10

\* sortedTimes.slice(cutOff, sortedTimes.length - cutOff)
filteredTimes(frameTimes) ==
    LET sorted == sortedTimes(frameTimes)
    IN SubSeq(sorted, cutOff(Len(sorted)) + 1, Len(sorted) - cutOff(Len(sorted)))

RECURSIVE Sum(_)
Sum(times) == IF times = << >> THEN 0 ELSE Head(times) + Sum(Tail(times))

\* avgFrameTime = sum / filteredTimes.length, kept as the two numbers
avgFrameTime(frameTimes) ==
    [sum |-> Sum(filteredTimes(frameTimes)), length |-> Len(filteredTimes(frameTimes))]

\* ================================================== the allocator alone
\* A Buffer driven by calls of its methods.

\* add_coarse_partition sizes (bytes): what the callers pass is a multiple
\* of 4 that is not negative.
CoarseSizes == {0, 16, 2 * MAX_CHUNK_BYTES + 8}
Usages == {COPY_DST, COPY_DST + STORAGE, COPY_DST + UNIFORM, STORAGE + UNIFORM}
\* add_fine_partition sizes (elements)
FineSizes == {-8, 2, (MAX_CHUNK_BYTES \div 2) + 1}
Payloads == {<<0, 0>>}
\* blit sources: 1, 2, .., n
SrcArrays == {[i \in 1..n |-> i] : n \in 1..MaxSrcLen}
BlitOffsets == {0, 2}

\* device.limits: both alignments are powers of two (WebGPU)
Limits(s, u) ==
    [minStorageBufferOffsetAlignment |-> s, minUniformBufferOffsetAlignment |-> u]
DeviceLimits == {Limits(256, 256)}
AllDeviceLimits == {Limits(s, u) : s \in {32, 256}, u \in {64, 256}}

VARIABLES
    buffer,         \* the Buffer object
    limits,         \* device.limits
    coarse_usages,  \* history: the usage argument of each add_coarse_partition
    writes,         \* the writeBuffer calls the last method call issued
    lastOp,         \* history: the last method call
    blits,          \* history: the number of blit calls so far
    pc,             \* Renderer: how far initialize has come
    objects,        \* scene.objects
    meshes,         \* Renderer.meshes
    bvh_buffer,     \* Renderer.bvh_buffer
    tlas,           \* Renderer.tlas
    loaded,         \* Renderer.loaded
    lastFrame,      \* history: how the last renderSingleFrame ended
    error,          \* history: what made initialize reject
    pipelines,      \* the pipelines of ray_tracing_pipeline and screen_pipeline
    frametime,      \* Renderer.frametime
    returned,       \* history: what the last renderSingleFrame returned
    frameLog,       \* history: what the last renderSingleFrame did, in order
    frameTimes,     \* the page: frameTimesRef.current
    scored,         \* history: the last calculateBenchmarkScore call
    isContinuousRenderingActive,    \* Renderer.isContinuousRenderingActive
    pendingCallbacks,   \* requestAnimationFrame(this.render) not yet run
    loopFrames,     \* history: the renderSingleFrame calls of render
    halted,         \* history: stopContinuousRendering, and no start since
    lastLoopOp,     \* history: the last call of the render loop
    benchmarkState, \* RunPage: benchmarkState
    device,         \* RunPage: device, "pending" until initGPU has set it or not
    mounted,        \* RunPage is mounted, and canvasRef.current is its canvas
    rendererRef,    \* rendererRef.current: "null", or "renderer" for the Renderer
    benchmarkInterval,  \* benchmarkIntervalRef.current is a live interval
    promise,        \* what waits for renderer.initialize() to settle
    elapsed,        \* performance.now() - benchmarkStartTimeRef.current, in ms
    lastTick,       \* history: the frames of the last tick of the interval
    invokedOn,      \* history: the stages renderSingleFrame was invoked in
    pipeline,       \* the Pipeline whose layout is declared
    assetLog        \* history: the calls createAssets made on its Buffers, in order

\* the Buffer under test, and the renderer
buffer_vars == <<buffer, coarse_usages, writes, lastOp, blits>>
frame_vars == <<objects, bvh_buffer, tlas, loaded, frametime, lastFrame, returned, frameLog>>
renderer_vars == <<pc, error, meshes, pipelines, assetLog, frame_vars>>
run_vars == <<benchmarkState, device, mounted, rendererRef, benchmarkInterval, promise,
              elapsed, lastTick, invokedOn>>
page_vars == <<frameTimes, scored, run_vars>>
loop_vars == <<isContinuousRenderingActive, pendingCallbacks, loopFrames, halted, lastLoopOp>>
pipeline_vars == <<pipeline>>
outside_buffer == <<renderer_vars, page_vars, loop_vars, pipeline_vars>>
outside_renderer == <<limits, buffer_vars, page_vars, loop_vars, pipeline_vars>>

vars == <<buffer, limits, coarse_usages, writes, lastOp, blits,
          pc, objects, meshes, bvh_buffer, tlas, loaded, lastFrame,
          error, pipelines, assetLog, frametime, returned, frameLog,
          frameTimes, scored,
          isContinuousRenderingActive, pendingCallbacks, loopFrames, halted, lastLoopOp,
          benchmarkState, device, mounted, rendererRef, benchmarkInterval, promise,
          elapsed, lastTick, invokedOn,
          pipeline>>

Op(name, c, f, threw) == [op |-> name, c |-> c, f |-> f, threw |-> threw]

InitBuffer(L) ==
    /\ buffer = NewBuffer
    /\ limits \in L
    /\ coarse_usages = << >>
    /\ writes = << >>
    /\ lastOp = Op("constructor", 0, 0, FALSE)
    /\ blits = 0

\* Renderer's constructor, for the scene it is given
InitRendererAt(stage, scenes) ==
    /\ pc = stage
    /\ objects \in scenes
    /\ meshes = << >>
    /\ bvh_buffer = NewBuffer
    /\ tlas = EmptyBVH
    /\ loaded = FALSE
    /\ lastFrame = "none"
    /\ error = "none"
    /\ pipelines = [ray_tracing |-> "none", screen |-> "none"]
    /\ frametime = undefined
    /\ returned = undefined
    /\ frameLog = << >>
    /\ assetLog = << >>

\* new Renderer(canvas, scene)
InitRendererWith(scenes) == InitRendererAt("constructed", scenes)

NotScored == [called |-> FALSE, frameTimes |-> << >>, avgFrameTime |-> [sum |-> 0, length |-> 0]]

\* no tick of the interval yet
NoTick == [pushed |-> FALSE, frames |-> 0, totalFrameTime |-> 0, returned |-> 0]

\* useState and useRef of RunPage
InitRun ==
    /\ benchmarkState = "READY"
    /\ device = "pending"
    /\ mounted = TRUE
    /\ rendererRef = "null"
    /\ benchmarkInterval = FALSE
    /\ promise = "none"
    /\ elapsed = 0
    /\ lastTick = NoTick
    /\ invokedOn = {}

\* the page as it is mounted, with the samples it has
InitPageWith(samples) ==
    /\ frameTimes \in samples
    /\ scored = NotScored
    /\ InitRun

\* the Pipeline of a renderer, as its constructor leaves it
InitPipelineWith(visibilities) ==
    pipeline \in {NewPipeline(visibility) : visibility \in visibilities}

\* private isContinuousRenderingActive: boolean = false
InitLoop ==
    /\ isContinuousRenderingActive = FALSE
    /\ pendingCallbacks = 0
    /\ loopFrames = 0
    /\ halted = FALSE
    /\ lastLoopOp = "none"

InitWith(L) ==
    InitBuffer(L) /\ InitRendererWith({<< >>}) /\ InitPageWith({<< >>}) /\ InitLoop /\ InitPipelineWith({COMPUTE})

Init == InitWith(DeviceLimits)

InitCoarse == InitWith(AllDeviceLimits)

\* indices count from 0, as in the code
CoarseIndices == 0..(Len(buffer.coarse_partitions) - 1)
FineIndices(c) == 0..(Len(buffer.fine_partitions[c + 1]) - 1)

RECURSIVE SumLen(_)
SumLen(s) == IF s = << >> THEN 0 ELSE Len(Head(s)) + SumLen(Tail(s))

Realized == buffer.deviceMemory # NoDeviceMemory

AddCoarsePartition(max, Sizes, Us) ==
    /\ Len(buffer.coarse_partitions) < max
    /\ \E size \in Sizes, usage \in Us :
        /\ buffer' = add_coarse_partition(buffer, limits, size, usage)
        /\ coarse_usages' = Append(coarse_usages, usage)
    /\ writes' = << >>
    /\ lastOp' = Op("add_coarse_partition", Len(buffer.coarse_partitions), 0, FALSE)
    /\ UNCHANGED <<limits, blits>>
    /\ UNCHANGED outside_buffer

DoInitialize ==
    /\ buffer' = Initialize(buffer)
    /\ writes' = << >>
    /\ lastOp' = Op("Initialize", 0, 0, FALSE)
    /\ UNCHANGED <<limits, coarse_usages, blits>>
    /\ UNCHANGED outside_buffer

AddFinePartition ==
    /\ SumLen(buffer.fine_partitions) < MaxFine
    /\ \E parent_index \in CoarseIndices, size \in FineSizes, payload \in Payloads :
        /\ buffer' = add_fine_partition(buffer, parent_index, size, payload)
        /\ lastOp' = Op("add_fine_partition", parent_index,
                        Len(buffer.fine_partitions[parent_index + 1]), FALSE)
    /\ writes' = << >>
    /\ UNCHANGED <<limits, coarse_usages, blits>>
    /\ UNCHANGED outside_buffer

Call(name, c, f, outcome) ==
    /\ buffer' = outcome.buffer
    /\ writes' = outcome.writes
    /\ lastOp' = Op(name, c, f, outcome.threw)
    /\ UNCHANGED <<limits, coarse_usages>>
    /\ UNCHANGED outside_buffer

BlitToCoarsePartition ==
    /\ blits < MaxBlits
    /\ blits' = blits + 1
    /\ \E c \in CoarseIndices, s \in SrcArrays, offset \in BlitOffsets :
        Call("blit_to_coarse_partition", c, 0,
             blit_to_coarse_partition(buffer, c, Float32ArrayOf(s), offset))

BlitToFinePartition ==
    /\ blits < MaxBlits
    /\ blits' = blits + 1
    /\ \E c \in CoarseIndices :
        \E f \in FineIndices(c), s \in SrcArrays :
            Call("blit_to_fine_partition", c, f,
                 blit_to_fine_partition(buffer, c, f, Float32ArrayOf(s)))

UploadCoarsePartition ==
    /\ UNCHANGED blits
    /\ \E c \in CoarseIndices :
        Call("upload_coarse_partition", c, 0, upload_coarse_partition(buffer, c))

UploadFinePartition ==
    /\ UNCHANGED blits
    /\ \E c \in CoarseIndices :
        \E f \in FineIndices(c) :
            Call("upload_fine_partition", c, f, upload_fine_partition(buffer, c, f))

\* The life of a buffer as the renderer drives it (createAssets): its
\* coarse partitions are declared, the device buffer is created, and then
\* fine partitions are added, and the host shadows filled and uploaded.
Next ==
    \/ /\ ~Realized
       /\ AddCoarsePartition(CoarsePartitionTypes, {16, 2 * MAX_CHUNK_BYTES + 8}, {COPY_DST + STORAGE})
    \/ /\ ~Realized
       /\ DoInitialize
    \/ /\ Realized
       /\ AddFinePartition
    \/ /\ Realized
       /\ BlitToCoarsePartition
    \/ /\ Realized
       /\ BlitToFinePartition
    \/ /\ Realized
       /\ UploadCoarsePartition
    \/ /\ Realized
       /\ UploadFinePartition

Spec == Init /\ [][Next]_vars

\* Laying a buffer out: any sequence of add_coarse_partition and Initialize.
NextCoarse ==
    \/ AddCoarsePartition(MaxDeclared, CoarseSizes, Usages)
    \/ DoInitialize

SpecCoarse == InitCoarse /\ [][NextCoarse]_vars

\* ========================================= the renderer's BVH buffer
\* Renderer.initialize up to the BVH buffer, and then frames. The uniform,
\* triangle and instance buffers are other Buffer objects.

\* world bounds an instance can have after scene.update
WorldBounds ==
    {Node(p, [i \in Axes |-> p[i] + 1]) : p \in {<<0, 0, 0>>, <<0, 0, 2>>}}

\* new GameObject(position, eulers, angular_velocity, validObjectType)
GameObjects == {[object_type |-> PYRAMID, bound |-> n] : n \in WorldBounds}

\* scene.objects: the objects of the Scene the renderer is given
Scenes == UNION {[1..n -> GameObjects] : n \in 0..MaxObjects}

\* what readFile can parse: the triangles of the file, by their bounds;
\* none when it throws
TriangleBounds == {Node(<<0, 0, 0>>, <<1, 1, 0>>), Node(<<0, 2, 0>>, <<1, 3, 1>>)}
ReadFiles == UNION {[1..n -> TriangleBounds] : n \in 0..MaxTriangles}

InitRenderer ==
    InitBuffer(DeviceLimits) /\ InitRendererWith(Scenes) /\ InitPageWith({<< >>}) /\ InitLoop /\ InitPipelineWith({COMPUTE})

\* setupDevice, and the pipelines and their layouts: it throws when there
\* is no navigator.gpu, no adapter or no context.
SetupDevice ==
    /\ pc = "constructed"
    /\ \E available \in BOOLEAN :
        /\ pc' = IF available THEN "device_set_up" ELSE "failed"
        /\ error' = IF available THEN "none" ELSE "device"
    /\ UNCHANGED <<meshes, pipelines, assetLog, frame_vars>>
    /\ UNCHANGED outside_renderer

\* createAssets up to load_models: the scene parameters get their Buffer;
\* a file that cannot be fetched leaves a mesh that was never initialized.
LoadModels ==
    /\ pc = "device_set_up"
    /\ \E fetched \in [ObjectTypes -> BOOLEAN], read \in [ObjectTypes -> ReadFiles] :
        meshes' = [t \in ObjectTypes |->
                      IF fetched[t] THEN initialize(ObjMesh, read[t], 1) ELSE ObjMesh]
    /\ pc' = "models_loaded"
    /\ assetLog' = assetLog \o scene_parameters_log
    /\ UNCHANGED <<error, pipelines, frame_vars>>
    /\ UNCHANGED outside_renderer

BuildTlas ==
    /\ pc = "models_loaded"
    /\ tlas' = build_tlas(objects, meshes)
    /\ pc' = "tlas_built"
    /\ UNCHANGED <<error, meshes, pipelines, assetLog>>
    /\ UNCHANGED <<objects, bvh_buffer, loaded, frametime, lastFrame, returned, frameLog>>
    /\ UNCHANGED outside_renderer

\* A throw in createAssets rejects initialize.
AllocateCoarsePartitions ==
    /\ pc = "tlas_built"
    /\ LET r == allocate_coarse_partitions(bvh_buffer, limits, objects, meshes)
       IN /\ bvh_buffer' = r.buffer
          /\ pc' = IF r.threw THEN "failed" ELSE "coarse_allocated"
          /\ error' = IF r.threw THEN "assets" ELSE error
          /\ assetLog' = assetLog \o allocate_coarse_log(r.threw)
    /\ UNCHANGED <<meshes, pipelines>>
    /\ UNCHANGED <<objects, tlas, loaded, frametime, lastFrame, returned, frameLog>>
    /\ UNCHANGED outside_renderer

\* allocate_fine_partitions, and the rest of createAssets and the bind
\* groups
AllocateFinePartitions ==
    /\ pc = "coarse_allocated"
    /\ LET r == allocate_fine_partitions(bvh_buffer, objects, meshes)
       IN /\ bvh_buffer' = r.buffer
          /\ pc' = IF r.threw THEN "failed" ELSE "assets_created"
          /\ error' = IF r.threw THEN "assets" ELSE error
          /\ assetLog' = assetLog \o allocate_fine_log(bvh_buffer, objects, meshes)
                             \o (IF r.threw THEN << >>
                                 ELSE upload_meshes_log(meshes) \o blas_description_log)
    /\ UNCHANGED <<meshes, pipelines>>
    /\ UNCHANGED <<objects, tlas, loaded, frametime, lastFrame, returned, frameLog>>
    /\ UNCHANGED outside_renderer

\* makePipelines: it throws when a shader cannot be fetched; then both
\* pipelines are built, and this.frametime = 16.
MakePipelines ==
    /\ pc = "assets_created"
    /\ \E fetched \in BOOLEAN, compiles \in [{"ray_tracing", "screen"} -> BOOLEAN] :
        LET ray_tracing == build(compiles["ray_tracing"])
            screen == build(compiles["screen"])
        IN IF ~fetched \/ ray_tracing.threw \/ screen.threw
           THEN /\ pc' = "failed"
                /\ error' = "pipelines"
                /\ UNCHANGED <<pipelines, frametime>>
           ELSE /\ pc' = "ready"
                /\ pipelines' = [ray_tracing |-> ray_tracing.pipeline,
                                 screen |-> screen.pipeline]
                /\ frametime' = 16
                /\ UNCHANGED error
    /\ UNCHANGED <<meshes, assetLog>>
    /\ UNCHANGED <<objects, bvh_buffer, tlas, loaded, lastFrame, returned, frameLog>>
    /\ UNCHANGED outside_renderer

\* this Renderer, and what a frame makes of it
ThisRenderer == RendererOf(pc, objects, meshes, bvh_buffer, tlas, loaded, frametime)

Becomes(renderer) ==
    /\ objects' = renderer.objects
    /\ bvh_buffer' = renderer.bvh_buffer
    /\ tlas' = renderer.tlas
    /\ loaded' = renderer.loaded
    /\ frametime' = renderer.frametime

\* the scenes scene.update can make of a scene
Updates(scene) ==
    {[i \in 1..Len(scene) |-> [scene[i] EXCEPT !.bound = moved[i]]] :
        moved \in [1..Len(scene) -> WorldBounds]}

\* the device calls of a frame that can throw
Faults == {"none", "writeBuffer", "encode", "texture", "submit"}

\* end - start of a frame, in ms
Durations == {10, 100}

\* renderSingleFrame on a renderer that is initialized, where the device
\* calls that can throw are those of faults
RenderFrame(faults, durations) ==
    /\ pc = "ready"
    /\ \E updated \in Updates(objects) :
        \E p \in {prepareScene(bvh_buffer, updated, meshes)} :
           \E fault \in faults, duration \in durations, lightweightMode \in BOOLEAN :
            LET frame == renderSingleFrame(ThisRenderer, updated, p, fault, duration,
                                           lightweightMode)
            IN /\ Becomes(frame.renderer)
               /\ lastFrame' = frame.ended
               /\ returned' = frame.returned
               /\ frameLog' = frame.log
    /\ UNCHANGED <<pc, error, meshes, pipelines, assetLog>>
    /\ UNCHANGED outside_renderer

\* a frame on a device that works
RenderSound == RenderFrame({"none"}, {10})

\* a frame on a device of which any call may throw
RenderSingleFrame == RenderFrame(Faults, Durations)

NextRenderer ==
    \/ SetupDevice
    \/ LoadModels
    \/ BuildTlas
    \/ AllocateCoarsePartitions
    \/ AllocateFinePartitions
    \/ MakePipelines
    \/ RenderSound

SpecRenderer == InitRenderer /\ [][NextRenderer]_vars

\* ---------------------------------------------------------- the frames
\* The renderer of a scene of at most MaxFrameObjects objects, from
\* construction through initialize to frames on a device of which any call
\* may throw.
FrameScenes == {scene \in Scenes : Len(scene) <= MaxFrameObjects}

InitFrames ==
    /\ InitBuffer(DeviceLimits)
    /\ InitRendererWith(FrameScenes)
    /\ InitPageWith({<< >>})
    /\ InitLoop
    /\ InitPipelineWith({COMPUTE})

NextFrames ==
    \/ SetupDevice
    \/ LoadModels
    \/ BuildTlas
    \/ AllocateCoarsePartitions
    \/ AllocateFinePartitions
    \/ MakePipelines
    \/ RenderSingleFrame

SpecFrames == InitFrames /\ [][NextFrames]_vars

\* ============================================= the score of a run
\* frame times in ms
SampleValues == {10, 100}
SampleLists == UNION {[1..n -> SampleValues] : n \in 1..MaxSamples}

InitScore ==
    InitBuffer(DeviceLimits) /\ InitRendererWith({<< >>}) /\ InitPageWith(SampleLists) /\ InitLoop /\ InitPipelineWith({COMPUTE})

\* calculateBenchmarkScore(frameTimesRef.current), up to the average
CalculateBenchmarkScore ==
    /\ frameTimes # << >>
    /\ scored' = [called |-> TRUE,
                  frameTimes |-> frameTimes,
                  avgFrameTime |-> avgFrameTime(frameTimes)]
    /\ UNCHANGED <<frameTimes, run_vars, limits, pipeline_vars, buffer_vars, renderer_vars, loop_vars>>

NextScore == CalculateBenchmarkScore

SpecScore == InitScore /\ [][NextScore]_vars

\* ======================================= the continuous render loop
\* startContinuousRendering, stopContinuousRendering and the animation
\* frames of a renderer, called in any order.

\* A faulty variant of render_runs: render does not look at the flag.
render_unguarded(active) == TRUE

\* if (!this.isContinuousRenderingActive) return
render_runs(active) == active

\* render: a frame, and the next animation frame is asked for
Render ==
    IF render_runs(isContinuousRenderingActive')
    THEN /\ loopFrames < MaxLoopFrames
         /\ loopFrames' = loopFrames + 1
    ELSE UNCHANGED loopFrames

StartContinuousRendering ==
    /\ lastLoopOp' = "start"
    /\ halted' = FALSE
    /\ IF ~isContinuousRenderingActive
       THEN /\ pendingCallbacks < MaxPending
            /\ isContinuousRenderingActive' = TRUE
            /\ pendingCallbacks' = pendingCallbacks + 1
            /\ Render
       ELSE UNCHANGED <<isContinuousRenderingActive, pendingCallbacks, loopFrames>>
    /\ UNCHANGED <<limits, pipeline_vars, buffer_vars, renderer_vars, page_vars>>

StopContinuousRendering ==
    /\ lastLoopOp' = "stop"
    /\ halted' = TRUE
    /\ isContinuousRenderingActive' = FALSE
    /\ UNCHANGED <<pendingCallbacks, loopFrames>>
    /\ UNCHANGED <<limits, pipeline_vars, buffer_vars, renderer_vars, page_vars>>

\* the browser runs a pending callback: render
AnimationFrame ==
    /\ pendingCallbacks > 0
    /\ lastLoopOp' = "callback"
    /\ UNCHANGED <<isContinuousRenderingActive, halted>>
    /\ pendingCallbacks' =
          IF render_runs(isContinuousRenderingActive)
          THEN pendingCallbacks ELSE pendingCallbacks - 1
    /\ Render
    /\ UNCHANGED <<limits, pipeline_vars, buffer_vars, renderer_vars, page_vars>>

NextLoop ==
    \/ StartContinuousRendering
    \/ StopContinuousRendering
    \/ AnimationFrame

InitLoopAlone ==
    InitBuffer(DeviceLimits) /\ InitRendererWith({<< >>}) /\ InitPageWith({<< >>}) /\ InitLoop /\ InitPipelineWith({COMPUTE})

SpecLoop == InitLoopAlone /\ [][NextLoop]_vars

\* ============================================ the page: a benchmark run
\* RunPage from its mount: initGPU, the click on Begin, the initialization
\* of the renderer it makes, the ticks of the benchmark interval, and the
\* unmount.
BENCHMARK_DURATION_MS == 15000
FRAMES_PER_MEASUREMENT == 3
BENCHMARK_INTERVAL_MS == 2000

\* how long renderer.initialize() takes, in ms
InitTimes == {11000, 20000}

\* new Scene()
PageScenes == {scene \in Scenes : Len(scene) = MaxPageObjects}

\* the device calls of a frame of the benchmark that can throw
PageFaults == {"none", "submit"}

\* new Renderer(canvasRef.current, scene)
NewRenderer(scene) ==
    RendererOf("constructed", scene, << >>, NewBuffer, EmptyBVH, FALSE, undefined)

\* A faulty variant of creates_renderer: the renderer is taken to exist.
keeps_renderer(ref, canvas) == FALSE

\* if (!rendererRef.current && canvasRef.current)
creates_renderer(ref, canvas) == ref = "null" /\ canvas

\* prepareScene as renderSingleFrame calls it; the buffers it writes to
\* exist once createAssets has run
prepared(renderer, updated) ==
    IF renderer.pc \in {"assets_created", "ready"}
    THEN prepareScene(renderer.bvh_buffer, updated, renderer.meshes)
    ELSE [buffer |-> renderer.bvh_buffer, tlas |-> renderer.tlas, writes |-> << >>,
          threw |-> TRUE, log |-> << >>]

\* The interval callback as it goes through its loop: rendererRef.current
\* and its Renderer, whether the Renderer was made in this tick, the
\* totalFrameTime, and, as history, the calls of renderSingleFrame, the sum
\* of what they returned and the last of them.
TickOf(ref, renderer) ==
    [rendererRef |-> ref, renderer |-> renderer, created |-> FALSE,
     totalFrameTime |-> 0, frames |-> 0, returned |-> 0, invoked |-> {},
     last |-> FrameOutcome(renderer, undefined, "none", << >>)]

\* forceRenderTest()
forceRenderTest(t, canvas, dev, scene, updated, p, fault, duration) ==
    IF ~canvas \/ dev # "device"
    THEN t
    ELSE IF t.rendererRef = "null"
    THEN [t EXCEPT !.rendererRef = "renderer", !.renderer = NewRenderer(scene),
                   !.created = TRUE]
    ELSE LET frame == renderSingleFrame(t.renderer, updated, p, fault, duration, TRUE)
         IN [t EXCEPT !.renderer = frame.renderer,
                      !.frames = @ + 1,
                      !.returned = @ + frame.returned,
                      !.invoked = @ \cup {t.renderer.pc},
                      !.last = frame]

\* the body of the loop of the interval callback: forceRenderTest(), and
\* totalFrameTime += rendererRef.current.frametime
measure(t, canvas, dev, scene, updated, p, fault, duration) ==
    LET f == forceRenderTest(t, canvas, dev, scene, updated, p, fault, duration)
    IN IF f.rendererRef # "null"
       THEN [f EXCEPT !.totalFrameTime = @ + f.renderer.frametime]
       ELSE f

\* The fields of the Renderer after a call that made a frame or a Renderer.
RendererBecomes(t) ==
    /\ Becomes(t.renderer)
    /\ pc' = t.renderer.pc
    /\ meshes' = t.renderer.meshes
    /\ IF t.created
       THEN /\ error' = "none"
            /\ pipelines' = [ray_tracing |-> "none", screen |-> "none"]
            /\ assetLog' = << >>
       ELSE UNCHANGED <<error, pipelines, assetLog>>
    /\ IF t.frames > 0
       THEN /\ lastFrame' = t.last.ended
            /\ returned' = t.last.returned
            /\ frameLog' = t.last.log
       ELSE UNCHANGED <<lastFrame, returned, frameLog>>

\* initGPU: the page has a device, or none
InitGPU ==
    /\ device = "pending"
    /\ \E got \in {"device", "null"} :
        device' = IF mounted THEN got ELSE "null"
    /\ UNCHANGED <<benchmarkState, mounted, rendererRef, benchmarkInterval, promise,
                   elapsed, lastTick, invokedOn>>
    /\ UNCHANGED <<frameTimes, scored>>
    /\ UNCHANGED <<limits, pipeline_vars, buffer_vars, renderer_vars, loop_vars>>

\* A faulty variant of begins: a click begins a run in any state.
begins_in_any_state(state, dev) == dev = "device"

\* if (benchmarkState === BenchmarkState.READY && device)
begins(state, dev) == state = "READY" /\ dev = "device"

\* handleBeginClick
HandleBeginClick ==
    /\ mounted
    /\ begins(benchmarkState, device)
    /\ benchmarkState' = "RUNNING"
    /\ elapsed' = 0
    /\ frameTimes' = << >>
    /\ IF creates_renderer(rendererRef, mounted)
       THEN /\ \E scene \in PageScenes :
                /\ pc' = "constructed"
                /\ objects' = scene
            /\ rendererRef' = "renderer"
            /\ promise' = "begin"
            /\ UNCHANGED benchmarkInterval
       ELSE /\ benchmarkInterval' = TRUE
            /\ UNCHANGED <<pc, objects, rendererRef, promise>>
    /\ UNCHANGED <<error, meshes, pipelines, assetLog>>
    /\ UNCHANGED <<bvh_buffer, tlas, loaded, frametime, lastFrame, returned, frameLog>>
    /\ UNCHANGED <<device, mounted, lastTick, invokedOn, scored>>
    /\ UNCHANGED <<limits, pipeline_vars, buffer_vars, loop_vars>>

\* renderer.initialize() resolves: startBenchmarkInterval for the renderer
\* of handleBeginClick, a test frame for one of forceRenderTest.
InitializeResolved ==
    /\ pc = "ready"
    /\ promise \in {"begin", "test"}
    /\ promise' = "settled"
    /\ IF promise = "begin"
       THEN /\ benchmarkInterval' = TRUE
            /\ \E took \in InitTimes : elapsed' = elapsed + took
            /\ UNCHANGED <<renderer_vars, invokedOn>>
       ELSE /\ \E updated \in Updates(objects), fault \in PageFaults, duration \in Durations :
                \E p \in {prepared(ThisRenderer, updated)} :
                   \E t \in {forceRenderTest(TickOf("renderer", ThisRenderer), TRUE, "device",
                                            objects, updated, p, fault, duration)} :
                      /\ RendererBecomes(t)
                      /\ invokedOn' = invokedOn \cup t.invoked
            /\ UNCHANGED <<benchmarkInterval, elapsed>>
    /\ UNCHANGED <<benchmarkState, device, mounted, rendererRef, lastTick>>
    /\ UNCHANGED <<frameTimes, scored>>
    /\ UNCHANGED <<limits, pipeline_vars, buffer_vars, loop_vars>>

\* renderer.initialize() rejects. A state of a page that is not mounted is
\* not set.
InitializeRejected ==
    /\ pc = "failed"
    /\ promise \in {"begin", "test"}
    /\ promise' = "settled"
    /\ benchmarkState' = IF promise = "begin" /\ mounted THEN "ERROR" ELSE benchmarkState
    /\ UNCHANGED <<device, mounted, rendererRef, benchmarkInterval, elapsed, lastTick,
                   invokedOn>>
    /\ UNCHANGED <<frameTimes, scored>>
    /\ UNCHANGED <<limits, pipeline_vars, buffer_vars, renderer_vars, loop_vars>>

\* A faulty variant of clearInterval: the interval stays live.
clearInterval_skipped(interval) == interval

\* clearInterval(benchmarkIntervalRef.current); the ref is set to null
clearInterval(interval) == FALSE

\* The interval callback before the end of the benchmark: three times
\* forceRenderTest and the frametime of the renderer, and the average is
\* pushed, to the whole ms.
IntervalTick ==
    /\ benchmarkInterval
    /\ elapsed + BENCHMARK_INTERVAL_MS < BENCHMARK_DURATION_MS
    /\ elapsed' = elapsed + BENCHMARK_INTERVAL_MS
    /\ \E scene \in (IF rendererRef = "null" /\ mounted THEN PageScenes ELSE {objects}) :
       \E u1 \in Updates(objects), f1 \in PageFaults, d1 \in Durations :
       \E p1 \in {prepared(ThisRenderer, u1)} :
       \E t1 \in {measure(TickOf(rendererRef, ThisRenderer), mounted, device, scene,
                          u1, p1, f1, d1)} :
       \E u2 \in Updates(t1.renderer.objects), f2 \in PageFaults, d2 \in Durations :
       \E p2 \in {prepared(t1.renderer, u2)} :
       \E t2 \in {measure(t1, mounted, device, scene, u2, p2, f2, d2)} :
       \E u3 \in Updates(t2.renderer.objects), f3 \in PageFaults, d3 \in Durations :
       \E p3 \in {prepared(t2.renderer, u3)} :
       \E t3 \in {measure(t2, mounted, device, scene, u3, p3, f3, d3)} :
          /\ RendererBecomes(t3)
          /\ rendererRef' = t3.rendererRef
          /\ promise' = IF t3.created THEN "test" ELSE promise
          /\ invokedOn' = invokedOn \cup t3.invoked
          /\ frameTimes' = IF t3.rendererRef # "null"
                           THEN Append(frameTimes,
                                       t3.totalFrameTime \div FRAMES_PER_MEASUREMENT)
                           ELSE frameTimes
          /\ lastTick' = [pushed |-> t3.rendererRef # "null", frames |-> t3.frames,
                          totalFrameTime |-> t3.totalFrameTime, returned |-> t3.returned]
    /\ UNCHANGED <<benchmarkState, device, mounted, benchmarkInterval, scored>>
    /\ UNCHANGED <<limits, pipeline_vars, buffer_vars, loop_vars>>

\* The interval callback at the end of the benchmark: finishBenchmark, with
\* cleanupRenderer and calculateBenchmarkScore.
IntervalExpired ==
    /\ benchmarkInterval
    /\ elapsed + BENCHMARK_INTERVAL_MS >= BENCHMARK_DURATION_MS
    /\ elapsed' = elapsed + BENCHMARK_INTERVAL_MS
    /\ benchmarkInterval' = clearInterval(benchmarkInterval)
    /\ rendererRef' = "null"
    /\ scored' = [called |-> TRUE,
                  frameTimes |-> frameTimes,
                  avgFrameTime |-> IF frameTimes = << >> THEN [sum |-> 0, length |-> 0]
                                   ELSE avgFrameTime(frameTimes)]
    /\ benchmarkState' = IF mounted THEN "COMPLETED" ELSE benchmarkState
    /\ UNCHANGED <<device, mounted, promise, lastTick, invokedOn, frameTimes>>
    /\ UNCHANGED <<limits, pipeline_vars, buffer_vars, renderer_vars, loop_vars>>

\* the cleanup of the mount effect: clearInterval and cleanupRenderer
Unmount ==
    /\ mounted
    /\ mounted' = FALSE
    /\ benchmarkInterval' = clearInterval(benchmarkInterval)
    /\ rendererRef' = "null"
    /\ UNCHANGED <<benchmarkState, device, promise, elapsed, lastTick, invokedOn>>
    /\ UNCHANGED <<frameTimes, scored>>
    /\ UNCHANGED <<limits, pipeline_vars, buffer_vars, renderer_vars, loop_vars>>

InitPage ==
    /\ InitBuffer(DeviceLimits)
    /\ InitRendererAt("absent", {<< >>})
    /\ InitPageWith({<< >>})
    /\ InitLoop
    /\ InitPipelineWith({COMPUTE})

NextPage ==
    \/ InitGPU
    \/ HandleBeginClick
    \/ SetupDevice
    \/ LoadModels
    \/ BuildTlas
    \/ AllocateCoarsePartitions
    \/ AllocateFinePartitions
    \/ MakePipelines
    \/ InitializeResolved
    \/ InitializeRejected
    \/ IntervalTick
    \/ IntervalExpired
    \/ Unmount

SpecPage == InitPage /\ [][NextPage]_vars

\* setInterval calls the callback every BENCHMARK_INTERVAL_MS while the interval
\* lives: a firing of the timer moves the callback's reading of Date.now().
TickStep == benchmarkInterval /\ elapsed' = elapsed + BENCHMARK_INTERVAL_MS

\* The timer of a live interval fires again and again.
SpecPageFair == SpecPage /\ WF_elapsed(TickStep)

\* =============================================== a pipeline's layout
\* addImage2D, addBuffer and addImageCube on one Pipeline, in any order,
\* up to MaxEntries entries.
BufferTypes == {"uniform", "read-only-storage"}

PipelineStep(p) ==
    /\ Len(p.entries) <= MaxEntries
    /\ pipeline' = p
    /\ UNCHANGED <<limits, buffer_vars, renderer_vars, page_vars, loop_vars>>

AddImage2D == PipelineStep(addImage2D(pipeline))

AddBuffer == \E type \in BufferTypes : PipelineStep(addBuffer(pipeline, type))

AddImageCube == PipelineStep(addImageCube(pipeline))

InitPipeline ==
    /\ InitBuffer(DeviceLimits)
    /\ InitRendererWith({<< >>})
    /\ InitPageWith({<< >>})
    /\ InitLoop
    /\ InitPipelineWith({COMPUTE, FRAGMENT})

NextPipeline ==
    \/ AddImage2D
    \/ AddBuffer
    \/ AddImageCube

SpecPipeline == InitPipeline /\ [][NextPipeline]_vars

\* ================================================================ claims
Ceil(a, b) == (a + b - 1) \div b

WriteBytes(w) == 4 * w.data.len

\* the host shadow, the coarse and the fine partition of the last call
LastHost == buffer.hostMemories[lastOp.c + 1]
LastCoarse == get_coarse_partition(buffer, lastOp.c)
LastFine == get_fine_partition(buffer, lastOp.c, lastOp.f)

\* a fine partition that is a region of its parent's host shadow
InHostShadow(fine, host) ==
    fine.offset >= 0 /\ fine.size >= 0 /\ fine.offset + fine.size <= host.len

\* elements first .. first + n - 1 of a typed array, numbered from 0
HostSlice(mem, first, n) ==
    [j \in {i - first : i \in {k \in DOMAIN mem.data : k >= first /\ k < first + n}}
        |-> mem.data[j + first]]

\* ws are ceil(S / 15 MiB) writes of at most 15 MiB each whose sources are
\* [from, from + S) of the host shadow, in increasing order, without gap
Tiles(ws, from, S) ==
    /\ Len(ws) = Ceil(S, MAX_CHUNK_BYTES)
    /\ \A k \in 1..Len(ws) :
        /\ WriteBytes(ws[k]) > 0
        /\ WriteBytes(ws[k]) <= MAX_CHUNK_BYTES
        /\ ws[k].data.byteOffset =
              IF k = 1 THEN from
              ELSE ws[k - 1].data.byteOffset + WriteBytes(ws[k - 1])
    /\ IF Len(ws) = 0 THEN S = 0
       ELSE ws[Len(ws)].data.byteOffset + WriteBytes(ws[Len(ws)]) = from + S

\* C1: an upload of a host shadow region of S bytes (a whole coarse
\* partition, or a fine partition that lies in its parent's host shadow)
\* issues exactly ceil(S / 15 MiB) device writes of at most 15 MiB each,
\* whose sources tile the region in increasing order with no overlap and no
\* gap; for S = 0 no write is issued.
C1_ChunkedUpload ==
    /\ lastOp.op = "upload_coarse_partition"
        => Tiles(writes, 0, 4 * LastHost.len)
    /\ (lastOp.op = "upload_fine_partition" /\ InHostShadow(LastFine, LastHost))
        => Tiles(writes, 4 * LastFine.offset, 4 * LastFine.size)

\* a fine partition of 30 MiB + 4 bytes was uploaded in three chunks, the
\* last one of 4 bytes
C1_Witness ==
    /\ lastOp.op = "upload_fine_partition"
    /\ InHostShadow(LastFine, LastHost)
    /\ Len(writes) = 3
    /\ WriteBytes(writes[3]) = 4

\* C4: every device write of an upload lies inside
\* [coarse.offset, coarse.offset + coarse.size) of the coarse partition that
\* is uploaded, whatever fine partitions were added.
C4_WritesInsideCoarse ==
    lastOp.op \in {"upload_coarse_partition", "upload_fine_partition"}
        => \A k \in 1..Len(writes) :
            /\ LastCoarse.offset <= writes[k].bufferOffset
            /\ writes[k].bufferOffset + WriteBytes(writes[k])
                  <= LastCoarse.offset + LastCoarse.size

\* a fine partition that runs past its parent's end was uploaded: two
\* chunks were written and the third was refused
C4_Witness ==
    /\ lastOp.op = "upload_fine_partition"
    /\ ~InHostShadow(LastFine, LastHost)
    /\ lastOp.threw
    /\ Len(writes) = 2

\* C5: chunk k of upload_coarse_partition goes to coarse.offset plus the
\* chunk's byte offset in the host shadow, chunk k of upload_fine_partition
\* to coarse.offset + 4 * fine.offset plus the chunk's byte offset in the
\* fine partition, and each carries the host shadow's floats at that place.
C5_UploadDestination ==
    LET base == IF lastOp.op = "upload_fine_partition" THEN 4 * LastFine.offset ELSE 0
    IN lastOp.op \in {"upload_coarse_partition", "upload_fine_partition"}
        => \A k \in 1..Len(writes) :
            LET within == (k - 1) * MAX_CHUNK_BYTES
            IN /\ writes[k].bufferOffset = LastCoarse.offset + base + within
               /\ writes[k].data.data =
                     HostSlice(LastHost, (base + within) \div 4, writes[k].data.len)

\* a fine partition that does not start its parent was uploaded with
\* floats in it
C5_Witness ==
    /\ lastOp.op = "upload_fine_partition"
    /\ LastFine.offset > 0
    /\ Len(writes) > 0
    /\ writes[1].data.data # << >>

\* the fine partitions and the host shadow of coarse partition c
Fines(b, c) == b.fine_partitions[c + 1]
Host(b, c) == b.hostMemories[c + 1]

\* C3: after every add_fine_partition the offset of partition i of a parent
\* is the sum of the sizes of the partitions before it (0 for the first);
\* no step moves, resizes or removes a partition, and a call on one parent
\* leaves the others as they were.
FineBump ==
    \A c \in CoarseIndices :
        \A i \in 1..Len(Fines(buffer, c)) :
            Fines(buffer, c)[i].offset = SumSizes(SubSeq(Fines(buffer, c), 1, i - 1))

FineStable ==
    /\ Len(buffer'.fine_partitions) >= Len(buffer.fine_partitions)
    /\ \A c \in CoarseIndices :
        /\ Len(Fines(buffer', c)) >= Len(Fines(buffer, c))
        /\ SubSeq(Fines(buffer', c), 1, Len(Fines(buffer, c))) = Fines(buffer, c)
        /\ (lastOp'.op = "add_fine_partition" /\ lastOp'.c # c)
              => Fines(buffer', c) = Fines(buffer, c)

C3_BumpAllocation == [][FineStable /\ FineBump']_vars

\* a parent has two fine partitions and the second starts where the first ends
C3_Witness ==
    \E c \in CoarseIndices :
        /\ Len(Fines(buffer, c)) = 2
        /\ Fines(buffer, c)[1].size = 2
        /\ Fines(buffer, c)[2].offset = 2

\* C6: the list of fine partitions never holds a partition of negative size
\* or one that ends past its parent's element capacity (size_bytes / 4).
C6_FineInsideParent ==
    \A c \in CoarseIndices :
        \A i \in 1..Len(Fines(buffer, c)) :
            /\ Fines(buffer, c)[i].size >= 0
            /\ Fines(buffer, c)[i].offset + Fines(buffer, c)[i].size
                  <= get_coarse_partition(buffer, c).size \div 4

\* C7: blit_to_fine_partition(c, f, src) changes no host shadow element
\* outside [offset, offset + size) of fine partition f, and no other coarse
\* partition's host shadow. Stated here for a parent all of whose fine
\* partitions lie in its host shadow.
C7_BlitInsideFine ==
    [][(/\ lastOp'.op = "blit_to_fine_partition"
        /\ \A i \in 1..Len(Fines(buffer, lastOp'.c)) :
              InHostShadow(Fines(buffer, lastOp'.c)[i], Host(buffer, lastOp'.c)))
        => LET c == lastOp'.c
               fine == get_fine_partition(buffer, c, lastOp'.f)
               touched == DOMAIN Host(buffer, c).data \cup DOMAIN Host(buffer', c).data
           IN /\ \A i \in touched :
                    (i < fine.offset \/ i >= fine.offset + fine.size)
                        => At(Host(buffer', c), i) = At(Host(buffer, c), i)
              /\ \A d \in CoarseIndices :
                    d # c => Host(buffer', d) = Host(buffer, d)]_vars

\* C8: a blit changes nothing but host shadows and issues no device write;
\* an upload leaves the host shadows, the partition records and the
\* buffer's size and usage as they were.
C8_SingleWriter ==
    [][/\ lastOp'.op \in {"blit_to_coarse_partition", "blit_to_fine_partition"}
            => /\ writes' = << >>
               /\ buffer' = [buffer EXCEPT !.hostMemories = buffer'.hostMemories]
       /\ lastOp'.op \in {"upload_coarse_partition", "upload_fine_partition"}
            => buffer' = buffer]_vars

\* a host shadow that a blit filled was uploaded
C8_Witness ==
    /\ lastOp.op = "upload_coarse_partition"
    /\ blits > 0
    /\ Len(writes) > 0
    /\ writes[1].data.data # << >>

HasFlag(usage, flag) == (usage \div flag) % 2 = 1

\* the end of the last coarse partition
Extent(b) ==
    IF b.coarse_partitions = << >> THEN 0
    ELSE b.coarse_partitions[Len(b.coarse_partitions)].offset
            + b.coarse_partitions[Len(b.coarse_partitions)].size

\* C2: add_coarse_partition at running offset O puts the partition at
\* O + padding, where for a usage with STORAGE (UNIFORM) the padding is
\* (A - (O mod A)) mod A for the device's storage (uniform) alignment A and
\* the offset is a multiple of A; with both flags the storage padding is
\* followed by the uniform padding, and with neither there is no padding.
C2_Alignment ==
    [][lastOp'.op = "add_coarse_partition"
        => LET O == buffer.size
               usage == coarse_usages'[Len(coarse_usages')]
               p == buffer'.coarse_partitions[Len(buffer'.coarse_partitions)]
               As == limits.minStorageBufferOffsetAlignment
               Au == limits.minUniformBufferOffsetAlignment
               ps == IF HasFlag(usage, STORAGE) THEN (As - (O % As)) % As ELSE 0
               pu == IF HasFlag(usage, UNIFORM)
                     THEN (Au - ((O + ps) % Au)) % Au ELSE 0
           IN /\ p.offset = O + ps + pu
              /\ HasFlag(usage, STORAGE) => p.offset % As = 0
              /\ HasFlag(usage, UNIFORM) => p.offset % Au = 0]_vars

\* a storage partition was padded up from a running offset that is not
\* aligned
C2_Witness ==
    /\ lastOp.op = "add_coarse_partition"
    /\ Len(buffer.coarse_partitions) >= 2
    /\ HasFlag(coarse_usages[Len(coarse_usages)], STORAGE)
    /\ buffer.coarse_partitions[Len(buffer.coarse_partitions)].offset
          > Extent([buffer EXCEPT !.coarse_partitions =
                        SubSeq(@, 1, Len(buffer.coarse_partitions) - 1)])

\* C9: Initialize creates the device buffer with the size the calls of
\* add_coarse_partition so far add up to, the end of the last partition,
\* and with every usage flag some call gave and no other; each coarse
\* partition has one host shadow of (its byte size / 4) floats.
C9_Initialize ==
    /\ lastOp.op = "Initialize"
        => /\ buffer.deviceMemory.size = Extent(buffer)
           /\ \A flag \in {COPY_DST, UNIFORM, STORAGE} :
                HasFlag(buffer.deviceMemory.usage, flag)
                    <=> \E i \in 1..Len(coarse_usages) : HasFlag(coarse_usages[i], flag)
           /\ buffer.deviceMemory.usage < 2 * STORAGE
           /\ \A flag \in {1, 2, 4, 16, 32} : ~HasFlag(buffer.deviceMemory.usage, flag)
    /\ Len(buffer.hostMemories) = Len(buffer.coarse_partitions)
    /\ \A c \in CoarseIndices :
            4 * Host(buffer, c).len = get_coarse_partition(buffer, c).size

\* a buffer of two partitions with padding between them and all three usage
\* flags was created
C9_Witness ==
    /\ lastOp.op = "Initialize"
    /\ Len(buffer.coarse_partitions) >= 2
    /\ buffer.deviceMemory.size > SumSizes(buffer.coarse_partitions)
    /\ buffer.deviceMemory.usage = COPY_DST + UNIFORM + STORAGE

\* build_tlas has run
TlasBuilt ==
    \/ pc \in {"tlas_built", "coarse_allocated", "assets_created", "ready"}
    \/ pc = "failed" /\ error \in {"assets", "pipelines"}

\* a BVH built from k leaves is a full binary tree over them: 2k - 1 nodes
\* of which k are leaves of one primitive each, every node but the root
\* the child of one internal node, and the indices a permutation of the
\* handles
FullBinaryTree(bvh, k) ==
    LET ns == 1..Len(bvh.nodes)
        internal == {n \in ns : bvh.nodes[n].primitiveCount = 0}
        leaf == ns \ internal
    IN /\ Len(bvh.nodes) = 2 * k - 1
       /\ Len(bvh.indices) = k
       /\ Cardinality(leaf) = k
       /\ \A n \in leaf : bvh.nodes[n].primitiveCount = 1
       /\ {bvh.nodes[n].leftChild : n \in leaf} = 0..(k - 1)
       /\ {bvh.indices[i] : i \in 1..k} = 0..(k - 1)
       /\ \A n \in internal :
            /\ bvh.nodes[n].leftChild + 1 > n
            /\ bvh.nodes[n].leftChild + 2 \in ns
       /\ \A c \in ns \ {1} :
            Cardinality({n \in internal :
                c - 1 \in {bvh.nodes[n].leftChild, bvh.nodes[n].leftChild + 1}}) = 1

\* the elements of a fine partition of the BVH buffer, as a sequence
FineData(coarse_index, fine_index) ==
    LET fine == get_fine_partition(bvh_buffer, coarse_index, fine_index)
    IN [e \in 1..fine.size |->
           At(bvh_buffer.hostMemories[coarse_index + 1], fine.offset + e - 1)]

\* data, and then zeros up to n elements
Padded(data, n) == [e \in 1..n |-> IF e <= Len(data) THEN data[e] ELSE 0]

TlasNodes == get_fine_partition(bvh_buffer, NODES, TLAS)
TlasIndices == get_fine_partition(bvh_buffer, LOOKUP, TLAS)

\* C10: a BVH built from N >= 1 leaves has exactly 2N - 1 nodes (a full
\* binary tree, no unary node) and N indices, for the top level and for
\* every mesh; and once the renderer is ready with a scene of N >= 1
\* objects, the top level of every frame fits the TLAS partitions of
\* 8 * (2N - 1) and N floats: no frame throws, and after a frame the two
\* partitions hold the flattened top level and every mesh partition still
\* holds what the mesh wrote.
C10_TlasFits ==
    /\ \A t \in DOMAIN meshes :
          meshes[t].bvh_defined =>
              FullBinaryTree(meshes[t].bvh, Len(meshes[t].triangles))
    /\ (TlasBuilt /\ Len(objects) >= 1) =>
          FullBinaryTree(tlas, Len(input_nodes(objects, meshes)))
    /\ (pc = "ready" /\ Len(objects) >= 1) =>
          /\ TlasNodes.size = 8 * (2 * Len(objects) - 1)
          /\ TlasIndices.size = Len(objects)
          /\ 8 * Len(tlas.nodes) <= TlasNodes.size
          /\ Len(tlas.indices) <= TlasIndices.size
          /\ InHostShadow(TlasNodes, bvh_buffer.hostMemories[NODES + 1])
          /\ InHostShadow(TlasIndices, bvh_buffer.hostMemories[LOOKUP + 1])
          /\ lastFrame # "prepareScene threw"
          /\ lastFrame = "submitted" =>
                /\ FineData(NODES, TLAS) =
                      Padded(get_flattened_nodes(tlas, TlasNodes.payload), TlasNodes.size)
                /\ FineData(LOOKUP, TLAS) =
                      Padded(get_flattened_indices(tlas, TlasIndices.payload), TlasIndices.size)
          /\ \A t \in ObjectTypes :
                /\ FineData(NODES, t) =
                      get_flattened_nodes(meshes[t].bvh,
                          get_fine_partition(bvh_buffer, NODES, t).payload)
                /\ FineData(LOOKUP, t) =
                      get_flattened_indices(meshes[t].bvh,
                          get_fine_partition(bvh_buffer, LOOKUP, t).payload)

\* a frame of a scene of three objects, of which two are at one place,
\* has written its top level of five nodes
C10_Witness ==
    /\ pc = "ready"
    /\ lastFrame = "submitted"
    /\ Len(objects) = 3
    /\ objects[1].bound = objects[3].bound
    /\ objects[1].bound # objects[2].bound
    /\ Len(tlas.nodes) = 5
    /\ \E t \in ObjectTypes : Len(meshes[t].bvh.nodes) = 3

\* C11: the BVH of no leaves is the empty BVH, of no node and no index, and
\* flattening it gives two empty arrays without raising: build_bvh of a
\* mesh without triangles, build_tlas and prepareScene of a scene without
\* instances all get this value.
C11_EmptyBVH ==
    /\ build_bvh(ObjMesh).bvh_defined
    /\ build_bvh(ObjMesh).bvh = EmptyBVH
    /\ (TlasBuilt /\ input_nodes(objects, meshes) = << >>) =>
          /\ tlas = EmptyBVH
          /\ Len(tlas.nodes) = 0
          /\ Len(tlas.indices) = 0
          /\ get_flattened_nodes(tlas, <<0, 0>>) = << >>
          /\ get_flattened_indices(tlas, <<0>>) = << >>
          /\ build_tlas(objects, meshes) = EmptyBVH
          /\ (Len(bvh_buffer.fine_partitions) = 2
              /\ \A c \in 1..2 : Len(bvh_buffer.fine_partitions[c]) >= 1) =>
                  prepareScene(bvh_buffer, objects, meshes).tlas = EmptyBVH

\* build_tlas has run on a scene without objects
C11_Witness ==
    /\ pc = "tlas_built"
    /\ Len(objects) = 0
    /\ tlas = EmptyBVH
    /\ \A t \in ObjectTypes : meshes[t].bvh_defined

\* C12: with a scene of 0 objects whose meshes all loaded, the renderer's
\* initialization does not fail (and so goes on to frames of an empty top
\* level).
C12_EmptySceneInitializes ==
    (Len(objects) = 0 /\ \A t \in DOMAIN meshes : meshes[t].bvh_defined) =>
        ~(pc = "failed" /\ error = "assets")

\* C13: every mesh load_models leaves, whatever went wrong with its file,
\* has at least one triangle and a bottom-level BVH that is not empty, and
\* the initialization of a renderer whose scene has objects does not fail.
C13_GeometryRecovered ==
    /\ \A t \in DOMAIN meshes :
          /\ Len(meshes[t].triangles) >= 1
          /\ meshes[t].bvh_defined
          /\ Len(meshes[t].bvh.nodes) >= 1
    /\ Len(objects) >= 1 => ~(pc = "failed" /\ error = "assets")

\* C15: a frame in which a step threw (the first write of the scene
\* preparation, a throw inside it, the command encoding, the texture or the
\* submission) returned 0 and left the renderer initialized, and the next
\* frame is rendered and submitted if no step of it throws.
C15_FrameErrorsCaught ==
    lastFrame \notin {"none", "submitted"} =>
        /\ returned = 0
        /\ pc = "ready"
        /\ renderSingleFrame(ThisRenderer, objects,
                             prepareScene(bvh_buffer, objects, meshes),
                             "none", 10, TRUE).ended = "submitted"

\* A submission threw after a frame that was rendered.
C15_Witness ==
    /\ lastFrame = "submit threw"
    /\ returned = 0
    /\ frametime \in Durations

\* where in the last frame a step was made
Steps(op, target) ==
    {i \in DOMAIN frameLog : frameLog[i].op = op /\ frameLog[i].target = target}

StepsOf(op) == {i \in DOMAIN frameLog : frameLog[i].op = op}

Before(earlier, later) == \A i \in earlier, j \in later : i < j

Once(steps) == Cardinality(steps) = 1

\* what a frame writes
FramePartitions ==
    {"scene parameters", "instance descriptors", "TLAS nodes", "TLAS indices"}

\* every upload precedes the submit and follows a blit to its partition
UploadsBlitted ==
    /\ Before(StepsOf("upload"), StepsOf("submit"))
    /\ \A i \in StepsOf("upload") :
          \E j \in StepsOf("blit") : j < i /\ frameLog[j].target = frameLog[i].target

\* C18, as the code has it: in a frame that renderSingleFrame completes the
\* scene is updated first; the scene parameters are blitted and uploaded;
\* then the instance of every object is made and its descriptor blitted,
\* and the descriptors are uploaded; then the top level is rebuilt, its
\* nodes are blitted and uploaded and then its indices; then come 1 or 3
\* dispatches, one draw and one submit. Every partition is uploaded once,
\* before the submit and after a blit to it.
C18_FrameOrder ==
    lastFrame = "submitted" =>
        /\ Steps("update", "scene") = {1}
        /\ Before(Steps("blit", "scene parameters"), Steps("upload", "scene parameters"))
        /\ Before(Steps("upload", "scene parameters"), StepsOf("instance"))
        /\ Cardinality(StepsOf("instance")) = Len(objects)
        /\ \A i \in StepsOf("instance") :
              frameLog[i + 1] = Event("blit", "instance descriptors", 0)
        /\ Before(Steps("blit", "instance descriptors"),
                  Steps("upload", "instance descriptors"))
        /\ Before(Steps("upload", "instance descriptors"), StepsOf("build_tlas"))
        /\ Once(StepsOf("build_tlas"))
        /\ Before(StepsOf("build_tlas"), Steps("blit", "TLAS nodes"))
        /\ Before(Steps("blit", "TLAS nodes"), Steps("upload", "TLAS nodes"))
        /\ Before(Steps("upload", "TLAS nodes"), Steps("blit", "TLAS indices"))
        /\ Before(Steps("blit", "TLAS indices"), Steps("upload", "TLAS indices"))
        /\ \A partition \in FramePartitions : Once(Steps("upload", partition))
        /\ Before(StepsOf("upload"), StepsOf("dispatch"))
        /\ Cardinality(StepsOf("dispatch")) \in {1, 3}
        /\ Before(StepsOf("dispatch"), StepsOf("draw"))
        /\ Once(StepsOf("draw"))
        /\ Before(StepsOf("draw"), StepsOf("submit"))
        /\ StepsOf("submit") = {Len(frameLog)}
        /\ UploadsBlitted

\* A frame of two objects and three passes was completed.
C18_Witness ==
    /\ lastFrame = "submitted"
    /\ Len(objects) = 2
    /\ Cardinality(StepsOf("instance")) = 2
    /\ Cardinality(StepsOf("dispatch")) = 3

\* C18, as it is stated: in a frame that renderSingleFrame completes the
\* update, the instances and the rebuild of the top level all come before
\* the first blit and the first upload, which come before the dispatches,
\* the one draw and the one submit.
C18_ClaimedOrder ==
    lastFrame = "submitted" =>
        /\ Before(StepsOf("update"), StepsOf("instance"))
        /\ Before(StepsOf("instance"), StepsOf("build_tlas"))
        /\ Before(StepsOf("build_tlas"), StepsOf("blit") \cup StepsOf("upload"))
        /\ Before(StepsOf("blit") \cup StepsOf("upload"), StepsOf("dispatch"))
        /\ Before(StepsOf("dispatch"), StepsOf("draw"))
        /\ Once(StepsOf("draw"))
        /\ Before(StepsOf("draw"), StepsOf("submit"))
        /\ Once(StepsOf("submit"))
        /\ UploadsBlitted

\* a step of Renderer.initialize threw, or a shader did not compile
ConstructionError ==
    \/ pc = "failed"
    \/ pc = "ready" /\ "invalid" \in {pipelines.ray_tracing, pipelines.screen}

\* C14: once the initialization of the renderer of a mounted page has
\* ended with no adapter or device, a throw in createAssets, a shader that
\* could not be fetched or one that did not compile, the page is in ERROR,
\* no interval runs, no sample is taken and renderSingleFrame was never
\* invoked.
C14_ConstructionFatal ==
    (ConstructionError /\ promise = "settled" /\ mounted) =>
        /\ benchmarkState = "ERROR"
        /\ ~benchmarkInterval
        /\ invokedOn = {}
        /\ frameTimes = << >>

\* C16: the sample that a tick pushed is the average of what the
\* renderSingleFrame calls of that tick returned, three of them.
C16_SampleOfTick ==
    lastTick.pushed =>
        /\ lastTick.frames = FRAMES_PER_MEASUREMENT
        /\ lastTick.totalFrameTime = lastTick.returned
        /\ frameTimes[Len(frameTimes)] = lastTick.returned \div FRAMES_PER_MEASUREMENT

\* C19: renderSingleFrame was invoked only on a renderer whose initialize
\* had resolved, and an interval runs only for such a renderer.
C19_RenderedWhenReady ==
    /\ invokedOn \subseteq {"ready"}
    /\ (benchmarkInterval /\ rendererRef # "null") => pc = "ready" /\ promise = "settled"

\* A tick has rendered its frames and pushed its sample.
C19_Witness ==
    /\ invokedOn = {"ready"}
    /\ Len(frameTimes) = 1
    /\ lastTick.frames = FRAMES_PER_MEASUREMENT
    /\ benchmarkInterval

\* how often a value occurs in a list
Count(times, v) == Cardinality({i \in 1..Len(times) : times[i] = v})

\* C17: for a sample list of n >= 1 frame times, calculateBenchmarkScore
\* averages what is left of the ascending list without its floor(n / 10)
\* lowest and its floor(n / 10) highest samples: n - 2 * floor(n / 10)
\* samples, never none; nine samples of 10 ms and one of 100 ms average
\* 10 ms; and the list it was given is as it was.
C17_TrimmedMean ==
    scored.called =>
        LET n == Len(frameTimes)
            k == n \div 10
            kept == filteredTimes(frameTimes)
            sorted == sortedTimes(frameTimes)
        IN /\ \A i \in 1..(n - 1) : sorted[i] <= sorted[i + 1]
           /\ \A v \in SampleValues : Count(sorted, v) = Count(frameTimes, v)
           /\ Len(kept) = n - 2 * k
           /\ Len(kept) >= 1
           /\ \A i \in 1..Len(kept) : kept[i] = sorted[k + i]
           /\ scored.avgFrameTime.length = n - 2 * k
           /\ scored.avgFrameTime.sum = Sum([i \in 1..(n - 2 * k) |-> sorted[k + i]])
           /\ (n = 10 /\ Count(frameTimes, 10) = 9 /\ Count(frameTimes, 100) = 1) =>
                 scored.avgFrameTime.sum = 10 * scored.avgFrameTime.length
           /\ scored.frameTimes = frameTimes

\* the score of nine samples of 10 ms and, in their midst, one of 100 ms
C17_Witness ==
    /\ scored.called
    /\ Len(frameTimes) = 10
    /\ frameTimes[4] = 100
    /\ Count(frameTimes, 10) = 9
    /\ scored.avgFrameTime = [sum |-> 80, length |-> 8]

\* C20: from stopContinuousRendering until the next
\* startContinuousRendering the loop renders no frame and asks for no
\* animation frame (a callback that was pending runs and does nothing);
\* and the stop itself only clears the flag: it takes back no frame and
\* no callback.
C20_StopHaltsLoop ==
    [][/\ (halted /\ halted') =>
            /\ loopFrames' = loopFrames
            /\ pendingCallbacks' <= pendingCallbacks
            /\ ~isContinuousRenderingActive'
       /\ (lastLoopOp' = "stop" /\ lastLoopOp # "stop") =>
            /\ loopFrames' = loopFrames
            /\ pendingCallbacks' = pendingCallbacks]_vars

\* the callback that was pending at the stop has run, and nothing came of it
C20_Witness ==
    /\ halted
    /\ lastLoopOp = "callback"
    /\ loopFrames = 2
    /\ pendingCallbacks = 0

\* the kind of resource a layout entry takes
Takes(entry) ==
    IF entry.resource \in {"storageTexture", "texture"} THEN "texture view"
    ELSE entry.resource

\* the entries of a bind group are those of a layout, binding by binding
Fits(bind_group, layout) ==
    /\ Len(bind_group) = Len(layout.entries)
    /\ \A k \in 1..Len(bind_group) :
          /\ bind_group[k].binding = layout.entries[k].binding
          /\ bind_group[k].resource = Takes(layout.entries[k])

\* C21: the k-th entry of a pipeline's layout, counted from 0, has binding
\* k, so no two entries share a binding, and the counter is the number of
\* entries; the layout that makeBindGroupLayouts declares for the ray
\* tracing pipeline has the bindings 0..7, and each takes the resource
\* that makeBindGroups gives it.
C21_BindingCounter ==
    /\ \A k \in 1..Len(pipeline.entries) : pipeline.entries[k].binding = k - 1
    /\ \A j, k \in 1..Len(pipeline.entries) :
          j # k => pipeline.entries[j].binding # pipeline.entries[k].binding
    /\ pipeline.binding = Len(pipeline.entries)
    /\ pipeline = makeBindGroupLayouts.ray_tracing_pipeline =>
          /\ {pipeline.entries[k].binding : k \in 1..Len(pipeline.entries)} = 0..7
          /\ Fits(makeBindGroups.ray_tracing_bind_group, pipeline)

\* The layout of the ray tracing pipeline has been declared.
C21_Witness ==
    /\ pipeline = makeBindGroupLayouts.ray_tracing_pipeline
    /\ Len(pipeline.entries) = 8

\* the Buffers that createAssets makes
RendererBuffers == {"scene parameters", "BVH", "triangles", "instance descriptors"}

\* the Buffer that a call is made on
BufferOf(target) == IF target \in {"TLAS nodes", "TLAS indices"} THEN "BVH" ELSE target

\* where createAssets made calls of these kinds on a Buffer
AssetCalls(ops, name) ==
    {i \in DOMAIN assetLog : assetLog[i].op \in ops /\ BufferOf(assetLog[i].target) = name}

\* where the last frame made calls of these kinds on a Buffer
FrameCalls(ops, name) ==
    {i \in DOMAIN frameLog : frameLog[i].op \in ops /\ BufferOf(frameLog[i].target) = name}

\* C22: each Buffer of the renderer is realized at most once, after every
\* add_coarse_partition on it and before every blit and upload on it, those
\* of the frames included, and a frame declares no partition.
C22_CapacityFixed ==
    \A name \in RendererBuffers :
        /\ Cardinality(AssetCalls({"Initialize"}, name)) <= 1
        /\ Before(AssetCalls({"add_coarse_partition"}, name), AssetCalls({"Initialize"}, name))
        /\ AssetCalls({"add_coarse_partition"}, name) # {} =>
              \/ AssetCalls({"Initialize"}, name) # {}
              \/ AssetCalls({"blit", "upload"}, name) = {}
        /\ \A i \in AssetCalls({"blit", "upload"}, name) :
              \E j \in AssetCalls({"Initialize"}, name) : j < i
        /\ FrameCalls({"add_coarse_partition", "Initialize"}, name) = {}
        /\ FrameCalls({"blit", "upload"}, name) # {} =>
              AssetCalls({"Initialize"}, name) # {}

\* The four Buffers were declared, realized and written by createAssets, and
\* a frame has written to them.
C22_Witness ==
    /\ lastFrame = "submitted"
    /\ \A name \in RendererBuffers : Once(AssetCalls({"Initialize"}, name))
    /\ Cardinality(AssetCalls({"add_coarse_partition"}, "BVH")) = 2
    /\ AssetCalls({"blit"}, "BVH") # {}
    /\ FrameCalls({"upload"}, "BVH") # {}

\* C23: at most one animation-frame callback of render is pending at a
\* time.
C23_OneLoop == pendingCallbacks <= 1

\* C24: once the cleanup of the unmount has run, no benchmark interval is
\* live.
C24_NoIntervalAfterUnmount == ~mounted => ~benchmarkInterval

\* C25: the benchmark state changes only from READY to RUNNING, by a click
\* on a page that has a device, from RUNNING to COMPLETED, by
\* finishBenchmark, which scores the run and clears the interval, and from
\* RUNNING to ERROR, when the initialization of the renderer failed; so
\* COMPLETED and ERROR are never left and a run reaches at most one of them.
C25_Transitions ==
    [][benchmarkState' # benchmarkState =>
          \/ /\ benchmarkState = "READY"
             /\ benchmarkState' = "RUNNING"
             /\ device = "device"
          \/ /\ benchmarkState = "RUNNING"
             /\ benchmarkState' = "COMPLETED"
             /\ scored'.called
             /\ ~benchmarkInterval'
          \/ /\ benchmarkState = "RUNNING"
             /\ benchmarkState' = "ERROR"
             /\ pc = "failed"]_vars

\* A run has been completed with a sample.
C25_Witness ==
    /\ benchmarkState = "COMPLETED"
    /\ scored.called
    /\ Len(frameTimes) = 1

C27_SampledWhenCompleted ==
    benchmarkState = "COMPLETED" =>
        /\ scored.called
        /\ Len(scored.frameTimes) >= 1
        /\ scored.avgFrameTime.length >= 1

\* C28: after any sequence of add_coarse_partition calls with sizes that are
\* not negative, the coarse partitions are in increasing order and pairwise
\* disjoint (for i < j, offset_i + size_i <= offset_j), each lies between 0
\* and buffer.size, and buffer.size is the end of the last partition.
C28_CoarseDisjoint ==
    LET partitions == buffer.coarse_partitions
        n == Len(partitions)
    IN /\ \A i \in 1..n : \A j \in 1..n :
            i < j => partitions[i].offset + partitions[i].size <= partitions[j].offset
       /\ \A i \in 1..n :
            /\ partitions[i].offset >= 0
            /\ partitions[i].size >= 0
            /\ partitions[i].offset + partitions[i].size <= buffer.size
       /\ n > 0 => buffer.size = partitions[n].offset + partitions[n].size
       /\ n = 0 => buffer.size = 0

\* three partitions were declared, one of them behind a padding and one of
\* them empty
C28_Witness ==
    /\ lastOp.op = "add_coarse_partition"
    /\ Len(buffer.coarse_partitions) = MaxDeclared
    /\ buffer.size > SumSizes(buffer.coarse_partitions)
    /\ \E i \in 1..Len(buffer.coarse_partitions) : buffer.coarse_partitions[i].size = 0
    /\ \E i \in 1..Len(buffer.coarse_partitions) : buffer.coarse_partitions[i].size > 0

\* createAssets has returned: the BVH buffer has its fine partitions
AssetsCreated ==
    \/ pc \in {"assets_created", "ready"}
    \/ pc = "failed" /\ error = "pipelines"

\* the fine partitions of coarse partition c lie end to end from element 0
\* to the end of its host shadow, and none is empty
FineTiles(c) ==
    LET fine == bvh_buffer.fine_partitions[c + 1]
    IN /\ Len(fine) >= 1
       /\ fine[1].offset = 0
       /\ \A i \in 1..Len(fine) : fine[i].size > 0
       /\ \A i \in 1..(Len(fine) - 1) : fine[i + 1].offset = fine[i].offset + fine[i].size
       /\ fine[Len(fine)].offset + fine[Len(fine)].size = Host(bvh_buffer, c).len
       /\ 4 * Host(bvh_buffer, c).len = get_coarse_partition(bvh_buffer, c).size

\* C29: after allocate_coarse_partitions and allocate_fine_partitions, for a
\* scene of N >= 1 objects, the fine partitions of each coarse partition of
\* the BVH buffer tile its host shadow without gap or overlap and none goes
\* past its end: in NODES their sizes sum to (byte size / 4) =
\* 8 * (2N - 1 + the node counts of the meshes), and in LOOKUP to
\* (byte size / 4) = N + the index counts of the meshes.
C29_FineTiling ==
    (AssetsCreated /\ Len(objects) >= 1) =>
        /\ Len(bvh_buffer.coarse_partitions) = 2
        /\ FineTiles(NODES)
        /\ FineTiles(LOOKUP)
        /\ SumSizes(bvh_buffer.fine_partitions[NODES + 1])
              = 8 * (2 * Len(objects) - 1
                     + SumOver([t \in ObjectTypes |-> Len(meshes[t].bvh.nodes)], ObjectTypes))
        /\ SumSizes(bvh_buffer.fine_partitions[LOOKUP + 1])
              = Len(objects)
                + SumOver([t \in ObjectTypes |-> Len(meshes[t].bvh.indices)], ObjectTypes)
        /\ Len(bvh_buffer.fine_partitions[NODES + 1]) = 1 + object_type_count
        /\ Len(bvh_buffer.fine_partitions[LOOKUP + 1]) = 1 + object_type_count

\* the assets of a scene of several objects and a mesh of two triangles
\* were created
C29_Witness ==
    /\ pc = "assets_created"
    /\ Len(objects) >= 2
    /\ \E t \in ObjectTypes : Len(meshes[t].bvh.nodes) = 3
    /\ Len(bvh_buffer.fine_partitions[NODES + 1]) = 1 + object_type_count

\* the 32-byte record at global node index n of the NODES host shadow
NodeRecord(b, n) == [e \in 1..8 |-> At(Host(b, NODES), 8 * n + e - 1)]

\* C30: for every mesh type t, fine partition number t of the NODES coarse
\* partition is the one allocated for mesh t; its element offset is 8 times
\* the node offset in its payload, by which the nodes of the mesh were
\* re-based; fine partition t of LOOKUP starts at the index offset in that
\* payload. So the root offset prepareScene writes into the instance
\* descriptor of an object is the global node index of the root of its mesh.
C30_RootOffsets ==
    AssetsCreated =>
        /\ \A t \in ObjectTypes :
              /\ t < Len(bvh_buffer.fine_partitions[NODES + 1])
              /\ t < Len(bvh_buffer.fine_partitions[LOOKUP + 1])
              /\ LET nodes == get_fine_partition(bvh_buffer, NODES, t)
                     lookup == get_fine_partition(bvh_buffer, LOOKUP, t)
                 IN /\ nodes.size = 8 * Len(meshes[t].bvh.nodes)
                    /\ lookup.size = Len(meshes[t].bvh.indices)
                    /\ Len(nodes.payload) = 2
                    /\ nodes.offset = 8 * nodes.payload[1]
                    /\ lookup.offset = nodes.payload[2]
        /\ \A i \in 1..Len(objects) :
              HasMesh(meshes, objects[i].object_type) =>
                  LET t == objects[i].object_type
                      payload == get_fine_partition(bvh_buffer, NODES, t).payload
                      root == blas_root_node(bvh_buffer, t)
                  IN /\ root = payload[1]
                     /\ root = tlas_node_count(Len(objects))
                              + SumOver([u \in {v \in ObjectTypes : v < t} |->
                                            Len(meshes[u].bvh.nodes)],
                                        {v \in ObjectTypes : v < t})
                     /\ NodeRecord(bvh_buffer, root)
                          = flattened_node(meshes[t].bvh.nodes[1], payload)

\* frames of a scene of several objects were rendered over a mesh of two
\* triangles, whose root is an internal node
C30_Witness ==
    /\ pc = "ready"
    /\ lastFrame = "submitted"
    /\ Len(objects) >= 2
    /\ \E t \in ObjectTypes : Len(meshes[t].bvh.nodes) = 3
    /\ \E i \in 1..Len(objects) : blas_root_node(bvh_buffer, objects[i].object_type) >= 3

====
